---- MODULE Spec2Model ----
(***************************************************************************)
(* Room pool and session lifecycle of the two servers of the repository:   *)
(*   "va": server/voice-ai-service (utils/room_pool.py + src/server.py)    *)
(*   "iv": ex/instant-voice/server/src/server.py                           *)
(* Every coroutine is cut at its await points: one action is the code that *)
(* runs between two suspensions of an asyncio task.                        *)
(***************************************************************************)
EXTENDS Integers, Sequences, FiniteSets, TLC

\* ------------------------------------------------------------------ bounds
\* number of /connect requests a run may receive
MaxConnects == 3

\* number of those requests served while any provisioning call may fail
MaxRequests == 2

\* number of those requests followed to the end of their session or bot
MaxSessions == 1

\* calls made on a VoiceBotManager taken alone, and the largest retry_count the
\* UserIdleProcessor passes to handle_user_idle
MaxCalls == 3
MaxRetryCount == 3

\* frames passed to a VoiceBotObserver, and the last second of the pipeline clock
MaxFrames == 4
MaxTime == 1

\* invocations of HumeTTSService.run_tts
MaxRuns == 3

\* RoomPool(pool_size=2) default, also ROOM_POOL_SIZE default
pool_size == 2

\* NUMBER_OF_ROOMS of the instant-voice server
NUMBER_OF_ROOMS == 1

\* ------------------------------------------------------------- identities
Conns == 1..MaxConnects
Requests == 1..MaxRequests
Sessions == 1..MaxSessions
Bots == 1..MaxSessions

\* asyncio tasks that run RoomPool.add_room: the gather of fill_pool, the
\* on-demand call inside get_room, the task created by get_room
FillTasks == {<<"fill", j>> : j \in 1..pool_size}
OnDemand(i) == <<"od", i>>
Background(i) == <<"bg", i>>
ArTasks == FillTasks \cup {OnDemand(i) : i \in Conns} \cup {Background(i) : i \in Conns}

\* the asyncio task a coroutine runs in: the on-demand add_room runs inside
\* the task of the request that called get_room
ConnTask(i) == <<"conn", i>>
TaskOf(t) == IF t[1] = "od" THEN ConnTask(t[2]) ELSE t
NoTask == <<"free", 0>>

\* the provisioning service hands out distinct room URLs: one per add_room call
UrlOf(t) == IF t[1] = "fill" THEN t[2]
            ELSE IF t[1] = "od" THEN pool_size + t[2]
            ELSE pool_size + MaxConnects + t[2]
RoomUrls == 1..(pool_size + 2 * MaxConnects)

\* instant-voice: the add_room calls of fill_pool and of get_room's tasks
IvFillTasks == {<<"fill", j>> : j \in 1..NUMBER_OF_ROOMS}
IvArTasks == IvFillTasks \cup {Background(i) : i \in Conns}
IvUrlOf(t) == IF t[1] = "fill" THEN t[2] ELSE NUMBER_OF_ROOMS + t[2]
IvRoomUrls == 1..(NUMBER_OF_ROOMS + MaxConnects)
NoUrl == 0
NoneTok == "None"
Tok == "token"

\* no get_status request was answered yet
NoResponse == [session_id |-> 0, code |-> 0, status |-> "none", metrics |-> "none"]

VARIABLES
  server,          \* which of the two programs runs: "va" or "iv"
  va_phase,        \* "startup", "serving", "disconnecting", "cleanup", "closed"
  va_pool,         \* RoomPool.pool
  va_lock,         \* RoomPool.lock: the task holding it, or NoTask
  ar_pc,           \* position of each add_room call
  ar_room_url,     \* add_room's local room_url
  ar_user_token,   \* add_room's local user_token
  ar_bot_token,    \* add_room's local bot_token
  conn_pc,         \* position of each connect request
  conn_status,     \* HTTP status answered to each connect request (0: none yet)
  gr_room,         \* room_url returned by the request's get_room (NoUrl: none)
  gr_err,          \* status of the HTTPException raised by get_room (0: none)
  gr_full,         \* history: requests whose get_room popped from a full buffer
  active_bots,     \* server.active_bots: session ids
  bot_room,        \* VoiceBotManager.room_url of each session
  bot_task,        \* VoiceBotManager.task: "None", "created", "cancelled"
  run_pc,          \* position of each run_bot background task
  disc_pc,         \* position of each disconnect request
  disc_result,     \* how each disconnect request ended: "none", "success", "KeyError"
  bot_disconnects, \* number of bot.disconnect() calls per session
  bot_status,      \* VoiceBotManager.status: "initializing", "active", "sleeping", "idle"
  bot_metrics,     \* VoiceBotManager.metrics["last_activity"]: "initial", "updated"
  gs_resp,         \* what the last get_status request answered
  cl_pending,      \* delete_room calls gathered by cleanup and not yet issued
  va_client,       \* the aiohttp.ClientSession of startup_event: "none", "open", "closed"
  va_deleteCalls,  \* number of _delete_room calls issued per room URL
  va_exists,       \* rooms that exist on the provisioning service
  va_appended,     \* history: room URLs in the order they were appended
  va_popped,       \* history: room URLs in the order get_room popped them
  iv_phase,        \* lifespan: "startup", "serving", "bot_cleanup", "pool_cleanup",
                   \* "closed" (client session closed), "aborted" (lifespan raised)
  iv_pool,         \* RoomPool.pool
  iv_lock,         \* RoomPool.lock
  iv_ar_pc,        \* position of each add_room call
  iv_ar_room_url,  \* add_room's local room.url
  iv_ar_user_token, \* add_room's local user_token
  iv_ar_bot_token, \* add_room's local bot_token
  iv_conn_pc,      \* position of each bot_connect request
  iv_conn_status,  \* HTTP status answered to each bot_connect request (0: none yet)
  iv_conn_body,    \* "none", "room" or "error": what the answer carries
  iv_gr_room,      \* room_url returned by the request's get_room
  iv_gr_err,       \* status of the HTTPException raised by get_room
  bot_procs,       \* BotManager.bot_procs: its pids, in insertion order
  room_mappings,   \* BotManager.room_mappings: pid -> room_url (NoUrl: no key)
  proc_state,      \* each bot process: "none", "running", "terminating", "exited"
  mon_pc,          \* position of each _monitor_process task
  mon_room_url,    \* _monitor_process's local room_url
  cl_pids,         \* BotManager.cleanup: the (pid, proc) items still to visit
  cl_pc,           \* BotManager.cleanup: "idle", "wait", "delete", "done"
  cl_room_url,     \* BotManager.cleanup's local room_url
  pcl_idx,         \* RoomPool.cleanup: index of the entry being deleted (0: none)
  iv_deleteCalls,  \* number of delete_room calls issued per room URL
  iv_exists,       \* rooms that exist on the provisioning service
  iv_appended,     \* history: room URLs in the order they were appended
  iv_popped,       \* history: room URLs in the order get_room popped them
  cl_woke,         \* history: pids whose exit BotManager.cleanup waited for
  vb_status,       \* VoiceBotManager.status of a bot taken alone
  vb_messages,     \* len(VoiceBotManager.messages)
  vb_endframes,    \* number of EndFrames queued on VoiceBotManager.task
  vb_log,          \* history: the calls made on the bot, with what they returned
  ob_owner,        \* whose metrics dictionary the VoiceBotObserver was built with
  ob_metrics,      \* VoiceBotObserver.metrics: key -> value
  ob_speaking_start_time,  \* _speaking_start_time: <<>> for None, else <<seconds>>
  ob_last_turn_start_time, \* _last_turn_start_time: <<>> for None, else <<seconds>>
  ob_total_response_time,  \* _total_response_time
  ob_response_count,       \* _response_count
  ob_now,          \* the pipeline clock, in seconds
  ob_seen,         \* history: frames passed to on_push_frame, per kind
  ob_raised,       \* history: the exceptions on_push_frame ended with
  tts_pc,          \* position of run_tts: "idle", "synthesize", "retry", "save"
  tts_voice_id,    \* HumeTTSService._voice_id: "None" or "id"
  tts_voice_name,  \* _voice_name: "None", "name" (given) or "pipecat-voice" (saved)
  tts_has_saved_voice, \* _has_saved_voice
  tts_context_id,  \* _context_id: "None" or "uuid"
  tts_last_generation_id, \* _last_generation_id: "None" or "generation"
  tts_audio,       \* generation.audio of the response in hand: "none", "audio", "malformed"
  tts_frames,      \* the frames the present (or last) invocation has yielded
  tts_synth,       \* history: synthesize_json calls of the present invocation
  tts_first,       \* history: how its first synthesize_json call ended
  tts_saves,       \* history: voices saved by run_tts
  tts_runs         \* history: invocations of run_tts

vaVars == <<va_phase, va_pool, va_lock, ar_pc, ar_room_url, ar_user_token,
            ar_bot_token,
            conn_pc, conn_status, gr_room, gr_err, gr_full, active_bots, bot_room,
            bot_task, run_pc, disc_pc, disc_result, bot_disconnects, bot_status,
            bot_metrics, gs_resp, cl_pending, va_client, va_deleteCalls, va_exists,
            va_appended, va_popped>>

ivVars == <<iv_phase, iv_pool, iv_lock, iv_ar_pc, iv_ar_room_url, iv_ar_user_token,
            iv_ar_bot_token, iv_conn_pc, iv_conn_status, iv_conn_body, iv_gr_room,
            iv_gr_err, bot_procs, room_mappings, proc_state, mon_pc, mon_room_url,
            cl_pids, cl_pc, cl_room_url, pcl_idx, iv_deleteCalls, iv_exists,
            iv_appended, iv_popped, cl_woke>>

vbVars == <<vb_status, vb_messages, vb_endframes, vb_log>>

\* the components that are modelled on their own, outside the two servers
obVars == <<ob_owner, ob_metrics, ob_speaking_start_time, ob_last_turn_start_time,
            ob_total_response_time, ob_response_count, ob_now, ob_seen, ob_raised>>

ttsVars == <<tts_pc, tts_voice_id, tts_voice_name, tts_has_saved_voice, tts_context_id,
             tts_last_generation_id, tts_audio, tts_frames, tts_synth, tts_first,
             tts_saves, tts_runs>>

unitVars == <<vbVars, obVars, ttsVars>>

vars == <<server, vaVars, ivVars, unitVars>>

\* a step of one server leaves the other program alone
VAStep == server = "va" /\ UNCHANGED <<server, ivVars, unitVars>>
IVStep == server = "iv" /\ UNCHANGED <<server, vaVars, unitVars>>

\* ---------------------------------------------------------------- helpers
RemoveAt(s, k) == [n \in 1..(Len(s) - 1) |-> IF n < k THEN s[n] ELSE s[n + 1]]

Range(s) == {s[n] : n \in 1..Len(s)}

IsPrefix(s, t) == Len(s) <= Len(t) /\ \A n \in 1..Len(s) : s[n] = t[n]

\* ============================================================ voice-ai-service
\* RoomPool.__init__ and the module globals of server.py
InitVAVars ==
  /\ va_phase = "startup"
  /\ va_pool = <<>>
  /\ va_lock = NoTask
  /\ ar_pc = [t \in ArTasks |-> "none"]
  /\ ar_room_url = [t \in ArTasks |-> NoUrl]
  /\ ar_user_token = [t \in ArTasks |-> NoneTok]
  /\ ar_bot_token = [t \in ArTasks |-> NoneTok]
  /\ conn_pc = [i \in Conns |-> "new"]
  /\ conn_status = [i \in Conns |-> 0]
  /\ gr_room = [i \in Conns |-> NoUrl]
  /\ gr_err = [i \in Conns |-> 0]
  /\ gr_full = {}
  /\ active_bots = {}
  /\ bot_room = [i \in Conns |-> NoUrl]
  /\ bot_task = [i \in Conns |-> "None"]
  /\ run_pc = [i \in Conns |-> "none"]
  /\ disc_pc = [i \in Conns |-> "idle"]
  /\ disc_result = [i \in Conns |-> "none"]
  /\ bot_disconnects = [i \in Conns |-> 0]
  /\ bot_status = [i \in Conns |-> "initializing"]
  /\ bot_metrics = [i \in Conns |-> "initial"]
  /\ gs_resp = NoResponse
  /\ cl_pending = {}
  /\ va_client = "none"
  /\ va_deleteCalls = [u \in RoomUrls |-> 0]
  /\ va_exists = {}
  /\ va_appended = <<>>
  /\ va_popped = <<>>

\* RoomPool.__init__, BotManager.__init__ and the globals of the instant-voice server
InitIVVars ==
  /\ iv_phase = "startup"
  /\ iv_pool = <<>>
  /\ iv_lock = NoTask
  /\ iv_ar_pc = [t \in IvArTasks |-> "none"]
  /\ iv_ar_room_url = [t \in IvArTasks |-> NoUrl]
  /\ iv_ar_user_token = [t \in IvArTasks |-> NoneTok]
  /\ iv_ar_bot_token = [t \in IvArTasks |-> NoneTok]
  /\ iv_conn_pc = [i \in Conns |-> "new"]
  /\ iv_conn_status = [i \in Conns |-> 0]
  /\ iv_conn_body = [i \in Conns |-> "none"]
  /\ iv_gr_room = [i \in Conns |-> NoUrl]
  /\ iv_gr_err = [i \in Conns |-> 0]
  /\ bot_procs = <<>>
  /\ room_mappings = [i \in Conns |-> NoUrl]
  /\ proc_state = [i \in Conns |-> "none"]
  /\ mon_pc = [i \in Conns |-> "none"]
  /\ mon_room_url = [i \in Conns |-> NoUrl]
  /\ cl_pids = <<>>
  /\ cl_pc = "idle"
  /\ cl_room_url = NoUrl
  /\ pcl_idx = 0
  /\ iv_deleteCalls = [u \in IvRoomUrls |-> 0]
  /\ iv_exists = {}
  /\ iv_appended = <<>>
  /\ iv_popped = <<>>
  /\ cl_woke = {}

\* VoiceBotManager.__init__: status, and messages with the system instruction
InitVBVars ==
  /\ vb_status = "initializing"
  /\ vb_messages = 1
  /\ vb_endframes = 0
  /\ vb_log = <<>>

\* the frames on_push_frame tells apart, and any other frame
FrameKinds == {"StartInterruptionFrame", "BotStartedSpeakingFrame",
               "BotStoppedSpeakingFrame", "UserStoppedSpeakingFrame",
               "LLMFullResponseEndFrame", "Frame"}

\* the dictionary VoiceBotObserver.__init__ builds when it is given none
ObserverMetrics ==
  [k \in {"interruptions", "total_turns", "bot_speaking_time", "last_activity",
          "avg_response_time"} |-> 0]

\* VoiceBotManager.metrics of voice-ai-service/bot.py
BotMetrics == [k \in {"interruptions", "total_turns", "last_activity"} |-> 0]

\* VoiceBotManager.metrics of voice-ai-service/src/bot.py
SrcBotMetrics ==
  [k \in {"interruptions", "total_turns", "last_activity", "bot_speaking_time",
          "user_speaking_time", "total_tokens", "prompt_tokens",
          "completion_tokens"} |-> 0]

\* VoiceBotObserver(metrics=...): `self.metrics = metrics or {...}`
MetricsOf(owner) ==
  IF owner = "bot.py" THEN BotMetrics
  ELSE IF owner = "src/bot.py" THEN SrcBotMetrics
  ELSE ObserverMetrics

\* VoiceBotObserver.__init__
InitOBVars ==
  /\ ob_owner \in {"observer", "bot.py", "src/bot.py"}
  /\ ob_metrics = MetricsOf(ob_owner)
  /\ ob_speaking_start_time = <<>>
  /\ ob_last_turn_start_time = <<>>
  /\ ob_total_response_time = 0
  /\ ob_response_count = 0
  /\ ob_now = 0
  /\ ob_seen = [k \in FrameKinds |-> 0]
  /\ ob_raised = {}

\* in the two servers and in the bot taken alone no observer is looked at
InitOBIdle == ob_owner = "observer" /\ InitOBVars

\* HumeTTSService.__init__(voice_id=..., voice_name=...)
InitTTSVars ==
  /\ tts_pc = "idle"
  /\ tts_voice_id \in {"None", "id"}
  /\ tts_voice_name \in {"None", "name"}
  /\ tts_has_saved_voice = FALSE
  /\ tts_context_id = "None"
  /\ tts_last_generation_id = "None"
  /\ tts_audio = "none"
  /\ tts_frames = <<>>
  /\ tts_synth = 0
  /\ tts_first = "none"
  /\ tts_saves = 0
  /\ tts_runs = 0

\* where no HumeTTSService is looked at
InitTTSIdle == tts_voice_id = "None" /\ tts_voice_name = "None" /\ InitTTSVars

InitUnitVars == InitVBVars /\ InitOBIdle /\ InitTTSIdle

InitVA == server = "va" /\ InitVAVars /\ InitIVVars /\ InitUnitVars

InitIV == server = "iv" /\ InitVAVars /\ InitIVVars /\ InitUnitVars

\* variables of server.py that RoomPool never touches
discVars == <<disc_pc, disc_result, bot_disconnects>>
statVars == <<bot_status, bot_metrics, gs_resp>>
botVars == <<bot_task, discVars, statVars>>
connVars == <<conn_pc, conn_status, gr_room, gr_err, gr_full, active_bots, bot_room,
              run_pc>>
provVars == <<va_deleteCalls, va_exists>>
arLocals == <<ar_room_url, ar_user_token, ar_bot_token>>
shutVars == <<va_phase, cl_pending, va_client>>

\* ---- RoomPool.get_room, from the lock being held to the end of connect
\* self.pool.pop(0): the index that is handed out and the buffer that is left
PopIndexLast(p) == Len(p)
PopIndex(p) == 1

PoolKeep(p) == p
PoolAfterPop(p) == RemoveAt(p, PopIndex(p))

\* entering `async with self.lock`: asyncio.Lock.acquire returns only when no
\* task holds the lock, the task that asks included
LockFreeAlways(holder) == TRUE
LockFree(holder) == holder = NoTask

\* what the lock is after leaving `async with self.lock` (normally or by raise)
LockKept(holder) == holder
LockAfterExit(holder) == NoTask

\* the status connect answers with when get_room raised HTTPException(code):
\* `except Exception as e: raise HTTPException(status_code=500, ...)`
connect_error_status(code) == 500

\* asyncio.create_task(self.add_room()) of get_room, in both pools: the
\* request's background add_room is scheduled
create_task_skipped(pcs, i) == pcs
create_task_add_room(pcs, i) == [pcs EXCEPT ![Background(i)] = "create"]

\* lines 126-132 of get_room and lines 153-188 of connect: no suspension
va_get_room_take(i, p, pcs) ==
  LET room == p[PopIndex(p)] IN
  /\ va_pool' = PoolAfterPop(p)
  /\ va_popped' = Append(va_popped, room.room_url)
  /\ va_lock' = LockAfterExit(ConnTask(i))
  /\ ar_pc' = create_task_add_room(pcs, i)
  /\ gr_room' = [gr_room EXCEPT ![i] = room.room_url]
  /\ active_bots' = active_bots \cup {i}
  /\ bot_room' = [bot_room EXCEPT ![i] = room.room_url]
  /\ run_pc' = [run_pc EXCEPT ![i] = "scheduled"]
  /\ conn_status' = [conn_status EXCEPT ![i] = 200]
  /\ conn_pc' = [conn_pc EXCEPT ![i] = "done"]
  /\ gr_full' = IF Len(p) = pool_size THEN gr_full \cup {i} ELSE gr_full
  /\ UNCHANGED gr_err

\* line 124 of get_room and lines 190-192 of connect
va_get_room_raise(i, p, pcs) ==
  /\ va_pool' = p
  /\ ar_pc' = pcs
  /\ va_lock' = LockAfterExit(ConnTask(i))
  /\ gr_err' = [gr_err EXCEPT ![i] = 503]
  /\ conn_status' = [conn_status EXCEPT ![i] = connect_error_status(503)]
  /\ conn_pc' = [conn_pc EXCEPT ![i] = "done"]
  /\ UNCHANGED <<gr_room, gr_full, active_bots, bot_room, run_pc, va_popped>>

\* add_room returned to its caller with the buffer p: fill_pool's gather and
\* the background task have nothing left to do, get_room goes on at line 123
va_add_room_return(t, p, pcs) ==
  IF t[1] = "od"
    THEN IF p = <<>> THEN va_get_room_raise(t[2], p, pcs)
                     ELSE va_get_room_take(t[2], p, pcs)
    ELSE /\ va_pool' = p
         /\ ar_pc' = pcs
         /\ UNCHANGED <<va_lock, connVars, va_popped>>

\* add_room returned: its locals are gone
ArLocalsGone(t) ==
  /\ ar_room_url' = [ar_room_url EXCEPT ![t] = NoUrl]
  /\ ar_user_token' = [ar_user_token EXCEPT ![t] = NoneTok]
  /\ ar_bot_token' = [ar_bot_token EXCEPT ![t] = NoneTok]

\* ---- startup_event: room_pool.initialize() -> fill_pool(pool_size)
startup_event ==
  /\ VAStep
  /\ va_phase = "startup"
  /\ \A t \in FillTasks : ar_pc[t] = "none"
  /\ va_client' = "open"
  /\ ar_pc' = [t \in ArTasks |-> IF t \in FillTasks THEN "create" ELSE ar_pc[t]]
  /\ UNCHANGED <<va_phase, va_pool, va_lock, arLocals, connVars, botVars,
                 cl_pending, provVars, va_appended, va_popped>>

\* asyncio.gather of fill_pool returned: the server starts serving
startup_done ==
  /\ VAStep
  /\ UNCHANGED va_client
  /\ va_phase = "startup"
  /\ \A t \in FillTasks : ar_pc[t] = "done"
  /\ va_phase' = "serving"
  /\ UNCHANGED <<va_pool, va_lock, ar_pc, arLocals, connVars, botVars,
                 cl_pending, provVars, va_appended, va_popped>>

\* ---- RoomPool.add_room
\* _create_room answered 200 with a url
va_create_room_ok(t) ==
  /\ VAStep
  /\ ar_pc[t] = "create"
  /\ ar_pc' = [ar_pc EXCEPT ![t] = "user_token"]
  /\ ar_room_url' = [ar_room_url EXCEPT ![t] = UrlOf(t)]
  /\ va_exists' = va_exists \cup {UrlOf(t)}
  /\ UNCHANGED <<va_pool, va_lock, ar_user_token, ar_bot_token, connVars, botVars,
                 shutVars, va_deleteCalls, va_appended, va_popped>>

\* _create_room returned None (non-200 or exception): add_room returns
va_create_room_fail(t) ==
  /\ VAStep
  /\ ar_pc[t] = "create"
  /\ va_add_room_return(t, va_pool, [ar_pc EXCEPT ![t] = "done"])
  /\ ArLocalsGone(t)
  /\ UNCHANGED <<botVars, shutVars, provVars, va_appended>>

\* user_token = await self._create_token(room_url)
va_user_token_ok(t) ==
  /\ VAStep
  /\ ar_pc[t] = "user_token"
  /\ ar_user_token' = [ar_user_token EXCEPT ![t] = Tok]
  /\ ar_pc' = [ar_pc EXCEPT ![t] = "bot_token"]
  /\ UNCHANGED <<va_pool, va_lock, ar_room_url, ar_bot_token, connVars, botVars,
                 shutVars, provVars, va_appended, va_popped>>

va_user_token_fail(t) ==
  /\ VAStep
  /\ ar_pc[t] = "user_token"
  /\ ar_user_token' = [ar_user_token EXCEPT ![t] = NoneTok]
  /\ ar_pc' = [ar_pc EXCEPT ![t] = "bot_token"]
  /\ UNCHANGED <<va_pool, va_lock, ar_room_url, ar_bot_token, connVars, botVars,
                 shutVars, provVars, va_appended, va_popped>>

\* `if not user_token or not bot_token`
TokensMissingUser(ut, bt) == ut = NoneTok
TokensMissing(ut, bt) == ut = NoneTok \/ bt = NoneTok

\* bot_token = await self._create_token(room_url), then line 91: with both
\* tokens go for the lock, else issue _delete_room(room_url)
va_bot_token(t, bt) ==
  /\ VAStep
  /\ ar_pc[t] = "bot_token"
  /\ ar_bot_token' = [ar_bot_token EXCEPT ![t] = bt]
  /\ IF TokensMissing(ar_user_token[t], bt)
       THEN /\ ar_pc' = [ar_pc EXCEPT ![t] = "delete"]
            /\ va_deleteCalls' = [va_deleteCalls EXCEPT ![ar_room_url[t]] = @ + 1]
       ELSE /\ ar_pc' = [ar_pc EXCEPT ![t] = "lock"]
            /\ UNCHANGED va_deleteCalls
  /\ UNCHANGED <<va_pool, va_lock, ar_room_url, ar_user_token, connVars, botVars,
                 shutVars, va_exists, va_appended, va_popped>>

va_bot_token_ok(t) == va_bot_token(t, Tok)

va_bot_token_fail(t) == va_bot_token(t, NoneTok)

\* _delete_room answered: True on 200, False otherwise; add_room returns
va_add_room_deleted(t, ok) ==
  /\ VAStep
  /\ ar_pc[t] = "delete"
  /\ va_exists' = IF ok THEN va_exists \ {ar_room_url[t]} ELSE va_exists
  /\ va_add_room_return(t, va_pool, [ar_pc EXCEPT ![t] = "done"])
  /\ ArLocalsGone(t)
  /\ UNCHANGED <<botVars, shutVars, va_deleteCalls, va_appended>>

va_delete_room_ok(t) == va_add_room_deleted(t, TRUE)

va_delete_room_fail(t) == va_add_room_deleted(t, FALSE)

\* the dictionary add_room appends, in both pools
PoolEntryNoBotToken(url, ut, bt) == [room_url |-> url, user_token |-> ut, bot_token |-> NoneTok]
PoolEntry(url, ut, bt) == [room_url |-> url, user_token |-> ut, bot_token |-> bt]

\* self.pool.append(entry)
PoolAppendDropped(p, entry) == p
PoolAfterAppend(p, entry) == Append(p, entry)

\* lines 97-103: `async with self.lock: self.pool.append(...)`; asyncio.Lock
\* is not reentrant, so the lock has to be free whoever asks for it
va_add_room_append(t) ==
  /\ VAStep
  /\ ar_pc[t] = "lock"
  /\ LockFree(va_lock)
  /\ LET entry == PoolEntry(ar_room_url[t], ar_user_token[t], ar_bot_token[t])
     IN /\ va_appended' = Append(va_appended, entry.room_url)
        /\ va_add_room_return(t, PoolAfterAppend(va_pool, entry), [ar_pc EXCEPT ![t] = "done"])
  /\ ArLocalsGone(t)
  /\ UNCHANGED <<botVars, shutVars, provVars>>

\* ---- connect / RoomPool.get_room
\* a POST /connect arrives (requests are numbered in their order of arrival)
connect(i) ==
  /\ VAStep
  /\ va_phase = "serving"
  /\ conn_pc[i] = "new"
  /\ i > 1 => conn_pc[i - 1] # "new"
  /\ conn_pc' = [conn_pc EXCEPT ![i] = "lock"]
  /\ UNCHANGED <<va_pool, va_lock, ar_pc, arLocals, conn_status, gr_room, gr_err, gr_full,
                 active_bots, bot_room, run_pc, botVars, shutVars, provVars,
                 va_appended, va_popped>>

\* get_room got the lock: with an empty buffer it awaits add_room() while it
\* holds the lock, else it pops
va_get_room(i) ==
  /\ VAStep
  /\ conn_pc[i] = "lock"
  /\ LockFree(va_lock)
  /\ IF va_pool = <<>>
       THEN /\ va_lock' = ConnTask(i)
            /\ conn_pc' = [conn_pc EXCEPT ![i] = "ondemand"]
            /\ ar_pc' = [ar_pc EXCEPT ![OnDemand(i)] = "create"]
            /\ UNCHANGED <<va_pool, conn_status, gr_room, gr_err, gr_full, active_bots,
                           bot_room, run_pc, va_popped>>
       ELSE va_get_room_take(i, va_pool, ar_pc)
  /\ UNCHANGED <<arLocals, botVars, shutVars, provVars, va_appended>>

\* ---- run_bot
\* bot.initialize() returned: the pipeline task exists and bot.run() starts
va_run_bot_initialize(s) ==
  /\ VAStep
  /\ run_pc[s] = "scheduled"
  /\ bot_task' = [bot_task EXCEPT ![s] = "created"]
  /\ bot_status' = [bot_status EXCEPT ![s] = "active"]
  /\ run_pc' = [run_pc EXCEPT ![s] = "running"]
  /\ UNCHANGED <<va_pool, va_lock, ar_pc, arLocals, conn_pc, conn_status, gr_room,
                 gr_err, gr_full, active_bots, bot_room, discVars, bot_metrics, gs_resp,
                 shutVars, provVars, va_appended, va_popped>>

\* how run_bot ends: `if session_id in active_bots: del active_bots[session_id]`
\* raises nothing, whether or not the session is still registered
RunBotEndUnguarded(bots, s) == IF s \in bots THEN "ended" ELSE "KeyError"
RunBotEnd(bots, s) == "ended"

\* the finally block of run_bot
va_run_bot_finally(s) ==
  /\ VAStep
  /\ active_bots' = active_bots \ {s}
  /\ run_pc' = [run_pc EXCEPT ![s] = RunBotEnd(active_bots, s)]
  /\ UNCHANGED <<va_pool, va_lock, ar_pc, arLocals, conn_pc, conn_status, gr_room,
                 gr_err, gr_full, bot_room, botVars, shutVars, provVars, va_appended, va_popped>>

\* bot.initialize() raised
va_run_bot_initialize_fail(s) ==
  /\ run_pc[s] = "scheduled"
  /\ va_run_bot_finally(s)

\* bot.run() returned or raised (pipeline ended, cancelled or crashed)
va_run_bot_finish(s) ==
  /\ run_pc[s] = "running"
  /\ va_run_bot_finally(s)

\* ---- the event handlers of the bot, GET /status/{session_id}
\* on_participant_left: self.status = "idle", then the pipeline task is cancelled
va_participant_left(s) ==
  /\ VAStep
  /\ run_pc[s] = "running"
  /\ bot_status' = [bot_status EXCEPT ![s] = "idle"]
  /\ UNCHANGED <<va_pool, va_lock, ar_pc, arLocals, connVars, bot_task, discVars,
                 bot_metrics, gs_resp, shutVars, provVars, va_appended, va_popped>>

\* handle_user_idle, lines 298-299: status and metrics["last_activity"]
va_handle_user_idle(s) ==
  /\ VAStep
  /\ run_pc[s] = "running"
  /\ bot_status' = [bot_status EXCEPT ![s] = "idle"]
  /\ bot_metrics' = [bot_metrics EXCEPT ![s] = "updated"]
  /\ UNCHANGED <<va_pool, va_lock, ar_pc, arLocals, connVars, bot_task, discVars,
                 gs_resp, shutVars, provVars, va_appended, va_popped>>

\* VoiceBotManager.sleep of voice-ai-service/bot.py: only an active bot goes to
\* sleep; any other status is left alone and False is returned
sleep(s) ==
  /\ VAStep
  /\ run_pc[s] = "running"
  /\ bot_status[s] = "active"
  /\ bot_status' = [bot_status EXCEPT ![s] = "sleeping"]
  /\ UNCHANGED <<va_pool, va_lock, ar_pc, arLocals, connVars, bot_task, discVars,
                 bot_metrics, gs_resp, shutVars, provVars, va_appended, va_popped>>

\* what wake and on_wake_command leave in status
WakeStatus(st) == IF st = "sleeping" THEN "active" ELSE st

\* VoiceBotManager.wake of voice-ai-service/bot.py
wake(s) ==
  /\ VAStep
  /\ run_pc[s] = "running"
  /\ bot_status[s] = "sleeping"
  /\ bot_status' = [bot_status EXCEPT ![s] = WakeStatus(bot_status[s])]
  /\ UNCHANGED <<va_pool, va_lock, ar_pc, arLocals, connVars, bot_task, discVars,
                 bot_metrics, gs_resp, shutVars, provVars, va_appended, va_popped>>

\* the wake filter's on_wake_command handler of voice-ai-service/bot.py
on_wake_command(s) ==
  /\ VAStep
  /\ run_pc[s] = "running"
  /\ bot_status[s] # "active"
  /\ bot_status' = [bot_status EXCEPT ![s] = WakeStatus(bot_status[s])]
  /\ bot_status'[s] # bot_status[s]
  /\ UNCHANGED <<va_pool, va_lock, ar_pc, arLocals, connVars, bot_task, discVars,
                 bot_metrics, gs_resp, shutVars, provVars, va_appended, va_popped>>

\* VoiceBotManager.get_status and the StatusResponse built from it
StatusOf(s) ==
  [session_id |-> s, code |-> 200, status |-> bot_status[s], metrics |-> bot_metrics[s]]

\* HTTPException(status_code=404, detail="Session not found")
NotFound(s) == [session_id |-> s, code |-> 404, status |-> "none", metrics |-> "none"]

get_status_unchecked(bots, s) == StatusOf(s)
get_status_answer(bots, s) == IF s \notin bots THEN NotFound(s) ELSE StatusOf(s)

\* GET /status/{session_id}: bot.get_status() has no await of its own, the
\* request is answered without a suspension
get_status(s) ==
  /\ VAStep
  /\ va_phase = "serving"
  /\ gs_resp' = get_status_answer(active_bots, s)
  /\ UNCHANGED <<va_pool, va_lock, ar_pc, arLocals, connVars, bot_task, discVars,
                 bot_status, bot_metrics, shutVars, provVars, va_appended, va_popped>>

\* ---- disconnect
\* line 231: `if session_id not in active_bots`
SessionKnownAlways(bots, s) == TRUE
SessionKnown(bots, s) == s \in bots

\* the finally block of disconnect, `if session_id in active_bots: del ...`, and
\* the return after it: the guarded del raises nothing
DelUnguarded(bots, s) == IF s \in bots THEN "success" ELSE "KeyError"
DelSession(bots, s) == "success"

\* POST /disconnect/{session_id}, up to the await inside bot.disconnect()
disconnect(s) ==
  /\ VAStep
  /\ va_phase = "serving"
  /\ disc_pc[s] = "idle"
  /\ IF ~SessionKnown(active_bots, s)
       THEN /\ disc_pc' = [disc_pc EXCEPT ![s] = "done"]
            /\ disc_result' = [disc_result EXCEPT ![s] = "success"]
            /\ UNCHANGED <<active_bots, bot_task, bot_disconnects>>
       ELSE /\ bot_disconnects' = [bot_disconnects EXCEPT ![s] = @ + 1]
            /\ IF bot_task[s] # "None"
                 THEN /\ bot_task' = [bot_task EXCEPT ![s] = "cancelled"]
                      /\ disc_pc' = [disc_pc EXCEPT ![s] = "cancel"]
                      /\ UNCHANGED <<active_bots, disc_result>>
                 ELSE /\ active_bots' = active_bots \ {s}
                      /\ disc_pc' = [disc_pc EXCEPT ![s] = "done"]
                      /\ disc_result' = [disc_result EXCEPT ![s] = DelSession(active_bots, s)]
                      /\ UNCHANGED bot_task
  /\ UNCHANGED <<va_pool, va_lock, ar_pc, arLocals, conn_pc, conn_status, gr_room,
                 gr_err, gr_full, bot_room, run_pc, statVars, shutVars, provVars,
                 va_appended, va_popped>>

\* task.cancel() returned or raised: the finally block of disconnect
va_disconnect_finally(s) ==
  /\ VAStep
  /\ disc_pc[s] = "cancel"
  /\ active_bots' = active_bots \ {s}
  /\ disc_pc' = [disc_pc EXCEPT ![s] = "done"]
  /\ disc_result' = [disc_result EXCEPT ![s] = DelSession(active_bots, s)]
  /\ UNCHANGED <<va_pool, va_lock, ar_pc, arLocals, conn_pc, conn_status, gr_room,
                 gr_err, gr_full, bot_room, bot_task, run_pc, bot_disconnects, statVars,
                 shutVars, provVars, va_appended, va_popped>>

\* ---- shutdown_event and RoomPool.cleanup
\* no request is in flight; bot.disconnect() of every active session
shutdown_event ==
  /\ VAStep
  /\ UNCHANGED va_client
  /\ va_phase = "serving"
  /\ \A i \in Conns : conn_pc[i] \in {"new", "done"}
  /\ \A s \in Conns : disc_pc[s] # "cancel"
  /\ bot_task' = [s \in Conns |-> IF s \in active_bots /\ bot_task[s] # "None"
                                    THEN "cancelled" ELSE bot_task[s]]
  /\ bot_disconnects' = [s \in Conns |-> IF s \in active_bots
                                           THEN bot_disconnects[s] + 1
                                           ELSE bot_disconnects[s]]
  /\ va_phase' = "disconnecting"
  /\ UNCHANGED <<va_pool, va_lock, ar_pc, arLocals, connVars, disc_pc, disc_result,
                 statVars, cl_pending, provVars, va_appended, va_popped>>

\* cleanup(): one delete_room per entry of the buffer, gathered
va_cleanup ==
  /\ VAStep
  /\ UNCHANGED va_client
  /\ va_phase = "disconnecting"
  /\ LET urls == {va_pool[n].room_url : n \in 1..Len(va_pool)} IN
     IF urls = {}
       THEN /\ va_pool' = <<>>
            /\ va_phase' = "closed"
            /\ UNCHANGED <<cl_pending, va_deleteCalls>>
       ELSE /\ cl_pending' = urls
            /\ va_deleteCalls' = [u \in RoomUrls |->
                 va_deleteCalls[u] + Cardinality({n \in 1..Len(va_pool) : va_pool[n].room_url = u})]
            /\ va_phase' = "cleanup"
            /\ UNCHANGED va_pool
  /\ UNCHANGED <<va_lock, ar_pc, arLocals, connVars, botVars, va_exists,
                 va_appended, va_popped>>

\* one of the gathered _delete_room calls answered
va_cleanup_deleted(u, ok) ==
  /\ VAStep
  /\ UNCHANGED va_client
  /\ va_phase = "cleanup"
  /\ u \in cl_pending
  /\ cl_pending' = cl_pending \ {u}
  /\ va_exists' = IF ok THEN va_exists \ {u} ELSE va_exists
  /\ UNCHANGED <<va_phase, va_pool, va_lock, ar_pc, arLocals, connVars, botVars,
                 va_deleteCalls, va_appended, va_popped>>

va_cleanup_delete_ok(u) == va_cleanup_deleted(u, TRUE)

va_cleanup_delete_fail(u) == va_cleanup_deleted(u, FALSE)

\* line 156: self.pool = []
PoolCleanupKept(p) == p
PoolAfterCleanup(p) == <<>>

\* the gather returned: self.pool = []
va_cleanup_done ==
  /\ VAStep
  /\ UNCHANGED va_client
  /\ va_phase = "cleanup"
  /\ cl_pending = {}
  /\ va_pool' = PoolAfterCleanup(va_pool)
  /\ va_phase' = "closed"
  /\ UNCHANGED <<va_lock, ar_pc, arLocals, connVars, botVars, cl_pending, provVars,
                 va_appended, va_popped>>

\* RoomPool, connect and shutdown; the sessions that connect registers are
\* left alone (run_bot and disconnect touch no variable of RoomPool)
NextPool ==
  \/ startup_event
  \/ startup_done
  \/ \E t \in ArTasks : va_create_room_ok(t)
  \/ \E t \in ArTasks : va_create_room_fail(t)
  \/ \E t \in ArTasks : va_user_token_ok(t)
  \/ \E t \in ArTasks : va_user_token_fail(t)
  \/ \E t \in ArTasks : va_bot_token_ok(t)
  \/ \E t \in ArTasks : va_bot_token_fail(t)
  \/ \E t \in ArTasks : va_delete_room_ok(t)
  \/ \E t \in ArTasks : va_delete_room_fail(t)
  \/ \E t \in ArTasks : va_add_room_append(t)
  \/ \E i \in Requests : connect(i)
  \/ \E i \in Requests : va_get_room(i)
  \/ shutdown_event
  \/ va_cleanup
  \/ \E u \in RoomUrls : va_cleanup_delete_ok(u)
  \/ \E u \in RoomUrls : va_cleanup_delete_fail(u)
  \/ va_cleanup_done

SpecPool == InitVA /\ [][NextPool]_vars

\* ================================================================ instant-voice
ivPoolVars == <<iv_pool, iv_lock, iv_appended, iv_popped>>
ivArLocals == <<iv_ar_room_url, iv_ar_user_token, iv_ar_bot_token>>
ivConnVars == <<iv_conn_pc, iv_conn_status, iv_conn_body, iv_gr_room, iv_gr_err>>
ivBotVars == <<bot_procs, room_mappings, proc_state, mon_pc, mon_room_url>>
ivClVars == <<cl_pids, cl_pc, cl_room_url, cl_woke>>
ivProvVars == <<iv_deleteCalls, iv_exists>>

\* ---- lifespan before yield: fill_pool(NUMBER_OF_ROOMS), one add_room after another
lifespan_startup ==
  /\ IVStep
  /\ iv_phase = "startup"
  /\ iv_ar_pc[<<"fill", 1>>] = "none"
  /\ iv_ar_pc' = [iv_ar_pc EXCEPT ![<<"fill", 1>>] = "create"]
  /\ UNCHANGED <<iv_phase, ivPoolVars, ivArLocals, ivConnVars, ivBotVars, ivClVars,
                 pcl_idx, ivProvVars>>

\* add_room returned: fill_pool calls the next one, or returns and the app serves
iv_add_room_return(t, pcs) ==
  /\ IF t[1] = "fill"
       THEN IF t[2] < NUMBER_OF_ROOMS
              THEN /\ iv_ar_pc' = [pcs EXCEPT ![<<"fill", t[2] + 1>>] = "create"]
                   /\ UNCHANGED iv_phase
              ELSE /\ iv_ar_pc' = pcs
                   /\ iv_phase' = "serving"
       ELSE /\ iv_ar_pc' = pcs
            /\ UNCHANGED iv_phase
  /\ iv_ar_room_url' = [iv_ar_room_url EXCEPT ![t] = NoUrl]
  /\ iv_ar_user_token' = [iv_ar_user_token EXCEPT ![t] = NoneTok]
  /\ iv_ar_bot_token' = [iv_ar_bot_token EXCEPT ![t] = NoneTok]

\* ---- RoomPool.add_room
\* create_room returned a room with a url
iv_create_room_ok(t) ==
  /\ IVStep
  /\ iv_ar_pc[t] = "create"
  /\ iv_ar_pc' = [iv_ar_pc EXCEPT ![t] = "user_token"]
  /\ iv_ar_room_url' = [iv_ar_room_url EXCEPT ![t] = IvUrlOf(t)]
  /\ iv_exists' = iv_exists \cup {IvUrlOf(t)}
  /\ UNCHANGED <<iv_phase, ivPoolVars, iv_ar_user_token, iv_ar_bot_token, ivConnVars,
                 ivBotVars, ivClVars, pcl_idx, iv_deleteCalls>>

\* create_room raised, or no url: the except clause prints and add_room returns
iv_create_room_fail(t) ==
  /\ IVStep
  /\ iv_ar_pc[t] = "create"
  /\ iv_add_room_return(t, [iv_ar_pc EXCEPT ![t] = "done"])
  /\ UNCHANGED <<ivPoolVars, ivConnVars, ivBotVars, ivClVars, pcl_idx, ivProvVars>>

iv_user_token_ok(t) ==
  /\ IVStep
  /\ iv_ar_pc[t] = "user_token"
  /\ iv_ar_user_token' = [iv_ar_user_token EXCEPT ![t] = Tok]
  /\ iv_ar_pc' = [iv_ar_pc EXCEPT ![t] = "bot_token"]
  /\ UNCHANGED <<iv_phase, ivPoolVars, iv_ar_room_url, iv_ar_bot_token, ivConnVars,
                 ivBotVars, ivClVars, pcl_idx, ivProvVars>>

\* get_token raised or returned nothing: HTTPException, caught at line 88
iv_token_fail(t, at) ==
  /\ IVStep
  /\ iv_ar_pc[t] = at
  /\ iv_add_room_return(t, [iv_ar_pc EXCEPT ![t] = "done"])
  /\ UNCHANGED <<ivPoolVars, ivConnVars, ivBotVars, ivClVars, pcl_idx, ivProvVars>>

iv_user_token_fail(t) == iv_token_fail(t, "user_token")

iv_bot_token_ok(t) ==
  /\ IVStep
  /\ iv_ar_pc[t] = "bot_token"
  /\ iv_ar_bot_token' = [iv_ar_bot_token EXCEPT ![t] = Tok]
  /\ iv_ar_pc' = [iv_ar_pc EXCEPT ![t] = "lock"]
  /\ UNCHANGED <<iv_phase, ivPoolVars, iv_ar_room_url, iv_ar_user_token, ivConnVars,
                 ivBotVars, ivClVars, pcl_idx, ivProvVars>>

iv_bot_token_fail(t) == iv_token_fail(t, "bot_token")

\* lines 83-86: `async with self.lock: self.pool.append(...)`
iv_add_room_append(t) ==
  /\ IVStep
  /\ iv_ar_pc[t] = "lock"
  /\ LockFree(iv_lock)
  /\ iv_pool' = PoolAfterAppend(iv_pool, PoolEntry(iv_ar_room_url[t], iv_ar_user_token[t],
                                                    iv_ar_bot_token[t]))
  /\ iv_appended' = Append(iv_appended, iv_ar_room_url[t])
  /\ iv_add_room_return(t, [iv_ar_pc EXCEPT ![t] = "done"])
  /\ UNCHANGED <<iv_lock, iv_popped, ivConnVars, ivBotVars, ivClVars, pcl_idx,
                 ivProvVars>>

\* ---- bot_connect / RoomPool.get_room / BotManager.start_bot
\* a POST /connect arrives (requests are numbered in their order of arrival)
bot_connect(i) ==
  /\ IVStep
  /\ iv_phase = "serving"
  /\ iv_conn_pc[i] = "new"
  /\ i > 1 => iv_conn_pc[i - 1] # "new"
  /\ iv_conn_pc' = [iv_conn_pc EXCEPT ![i] = "lock"]
  /\ UNCHANGED <<iv_phase, ivPoolVars, iv_ar_pc, ivArLocals, iv_conn_status,
                 iv_conn_body, iv_gr_room, iv_gr_err, ivBotVars, ivClVars, pcl_idx,
                 ivProvVars>>

\* self.pool.pop(0) of the instant-voice RoomPool
IvPopIndex(p) == 1

IvPoolKeep(p) == p
IvPoolAfterPop(p) == RemoveAt(p, IvPopIndex(p))

\* what bot_connect answers when get_room or start_bot raised HTTPException(code):
\* `except HTTPException as e: return {"error": str(e)}`, an ordinary 200 answer
bot_connect_error_status(code) == 200

\* lines 101-103 of get_room, `raise HTTPException(status_code=503, ...)` on an
\* empty buffer, and lines 290-291 of bot_connect, which answers the error
iv_get_room_raise_scheduling(i, pcs) ==
  /\ iv_gr_err' = [iv_gr_err EXCEPT ![i] = 503]
  /\ iv_conn_status' = [iv_conn_status EXCEPT ![i] = bot_connect_error_status(503)]
  /\ iv_conn_body' = [iv_conn_body EXCEPT ![i] = "error"]
  /\ iv_conn_pc' = [iv_conn_pc EXCEPT ![i] = "done"]
  /\ iv_ar_pc' = create_task_add_room(pcs, i)
  /\ UNCHANGED <<iv_pool, iv_popped, iv_gr_room>>

iv_get_room_raise(i, pcs) ==
  /\ iv_gr_err' = [iv_gr_err EXCEPT ![i] = 503]
  /\ iv_conn_status' = [iv_conn_status EXCEPT ![i] = bot_connect_error_status(503)]
  /\ iv_conn_body' = [iv_conn_body EXCEPT ![i] = "error"]
  /\ iv_conn_pc' = [iv_conn_pc EXCEPT ![i] = "done"]
  /\ iv_ar_pc' = pcs
  /\ UNCHANGED <<iv_pool, iv_popped, iv_gr_room>>

\* get_room under the lock: raise 503 on an empty buffer, else pop, create the
\* add_room task and await start_bot's create_subprocess_shell
iv_get_room(i) ==
  /\ IVStep
  /\ iv_conn_pc[i] = "lock"
  /\ LockFree(iv_lock)
  /\ IF iv_pool = <<>>
       THEN iv_get_room_raise(i, iv_ar_pc)
       ELSE /\ iv_pool' = IvPoolAfterPop(iv_pool)
            /\ iv_popped' = Append(iv_popped, iv_pool[IvPopIndex(iv_pool)].room_url)
            /\ iv_ar_pc' = create_task_add_room(iv_ar_pc, i)
            /\ iv_gr_room' = [iv_gr_room EXCEPT ![i] = iv_pool[IvPopIndex(iv_pool)].room_url]
            /\ iv_conn_pc' = [iv_conn_pc EXCEPT ![i] = "spawn"]
            /\ UNCHANGED <<iv_gr_err, iv_conn_status, iv_conn_body>>
  /\ UNCHANGED <<iv_phase, iv_lock, iv_appended, ivArLocals, ivBotVars, ivClVars,
                 pcl_idx, ivProvVars>>

\* create_subprocess_shell returned a process: start_bot registers it (its pid
\* is the request's number) and creates the monitor task; bot_connect answers
iv_start_bot_ok(i) ==
  /\ IVStep
  /\ iv_conn_pc[i] = "spawn"
  /\ bot_procs' = Append(bot_procs, i)
  /\ room_mappings' = [room_mappings EXCEPT ![i] = iv_gr_room[i]]
  /\ proc_state' = [proc_state EXCEPT ![i] = "running"]
  /\ mon_pc' = [mon_pc EXCEPT ![i] = "start"]
  /\ iv_conn_status' = [iv_conn_status EXCEPT ![i] = 200]
  /\ iv_conn_body' = [iv_conn_body EXCEPT ![i] = "room"]
  /\ iv_conn_pc' = [iv_conn_pc EXCEPT ![i] = "done"]
  /\ UNCHANGED <<iv_phase, ivPoolVars, iv_ar_pc, ivArLocals, iv_gr_room, iv_gr_err,
                 mon_room_url, ivClVars, pcl_idx, ivProvVars>>

\* create_subprocess_shell raised: HTTPException(500), answered as an error body
iv_start_bot_fail(i) ==
  /\ IVStep
  /\ iv_conn_pc[i] = "spawn"
  /\ iv_conn_status' = [iv_conn_status EXCEPT ![i] = bot_connect_error_status(500)]
  /\ iv_conn_body' = [iv_conn_body EXCEPT ![i] = "error"]
  /\ iv_conn_pc' = [iv_conn_pc EXCEPT ![i] = "done"]
  /\ UNCHANGED <<iv_phase, ivPoolVars, iv_ar_pc, ivArLocals, iv_gr_room, iv_gr_err,
                 ivBotVars, ivClVars, pcl_idx, ivProvVars>>

\* ---- the bot process
\* the process exits, by itself or after the SIGTERM of cleanup
proc_exit(pid) ==
  /\ IVStep
  /\ proc_state[pid] \in {"running", "terminating"}
  /\ proc_state' = [proc_state EXCEPT ![pid] = "exited"]
  /\ UNCHANGED <<iv_phase, ivPoolVars, iv_ar_pc, ivArLocals, ivConnVars, bot_procs,
                 room_mappings, mon_pc, mon_room_url, ivClVars, pcl_idx, ivProvVars>>

\* ---- BotManager._monitor_process
InProcs(pid, procs) == \E n \in 1..Len(procs) : procs[n] = pid

\* `del self.bot_procs[pid]`
DelProc(procs, pid) == SelectSeq(procs, LAMBDA q : q # pid)

\* room_mappings.pop(pid, None): the mapping that is left
MappingKept(maps, pid) == maps
MappingAfterPop(maps, pid) == [maps EXCEPT ![pid] = NoUrl]

\* lines 186-188: proc = self.bot_procs.get(pid); if proc: await proc.wait()
monitor_start(pid) ==
  /\ IVStep
  /\ mon_pc[pid] = "start"
  /\ mon_pc' = [mon_pc EXCEPT ![pid] = IF InProcs(pid, bot_procs) THEN "wait" ELSE "done"]
  /\ UNCHANGED <<iv_phase, ivPoolVars, iv_ar_pc, ivArLocals, ivConnVars, bot_procs,
                 room_mappings, proc_state, mon_room_url, ivClVars, pcl_idx, ivProvVars>>

\* line 195: `del self.bot_procs[pid]`, a KeyError when the key is gone
monitor_del(pid) ==
  IF InProcs(pid, bot_procs)
    THEN /\ bot_procs' = DelProc(bot_procs, pid)
         /\ mon_pc' = [mon_pc EXCEPT ![pid] = "done"]
    ELSE /\ mon_pc' = [mon_pc EXCEPT ![pid] = "KeyError"]
         /\ UNCHANGED bot_procs

\* proc.wait() returned: lines 189-195 up to the await of delete_room
monitor_wake(pid) ==
  /\ IVStep
  /\ mon_pc[pid] = "wait"
  /\ proc_state[pid] = "exited"
  /\ room_mappings' = MappingAfterPop(room_mappings, pid)
  /\ IF room_mappings[pid] # NoUrl
       THEN /\ mon_room_url' = [mon_room_url EXCEPT ![pid] = room_mappings[pid]]
            /\ iv_deleteCalls' = [iv_deleteCalls EXCEPT ![room_mappings[pid]] = @ + 1]
            /\ mon_pc' = [mon_pc EXCEPT ![pid] = "delete"]
            /\ UNCHANGED bot_procs
       ELSE /\ monitor_del(pid)
            /\ UNCHANGED <<mon_room_url, iv_deleteCalls>>
  /\ UNCHANGED <<iv_phase, ivPoolVars, iv_ar_pc, ivArLocals, ivConnVars, proc_state,
                 ivClVars, pcl_idx, iv_exists>>

\* delete_room returned: print, then line 195
monitor_deleted_ok(pid) ==
  /\ IVStep
  /\ mon_pc[pid] = "delete"
  /\ iv_exists' = iv_exists \ {mon_room_url[pid]}
  /\ monitor_del(pid)
  /\ UNCHANGED <<iv_phase, ivPoolVars, iv_ar_pc, ivArLocals, ivConnVars, room_mappings,
                 proc_state, mon_room_url, ivClVars, pcl_idx, iv_deleteCalls>>

\* delete_room raised: the monitor task ends with that exception
monitor_deleted_fail(pid) ==
  /\ IVStep
  /\ mon_pc[pid] = "delete"
  /\ mon_pc' = [mon_pc EXCEPT ![pid] = "raised"]
  /\ UNCHANGED <<iv_phase, ivPoolVars, iv_ar_pc, ivArLocals, ivConnVars, bot_procs,
                 room_mappings, proc_state, mon_room_url, ivClVars, pcl_idx, ivProvVars>>

\* ---- BotManager.cleanup
\* proc.terminate() on a process that has exited raises ProcessLookupError,
\* which `except Exception` prints: the loop goes on with the next item
RECURSIVE SkipExited(_, _)
SkipExited(pids, ps) ==
  IF pids = <<>> THEN <<>>
  ELSE IF ps[Head(pids)] = "exited" THEN SkipExited(Tail(pids), ps)
  ELSE pids

\* lifespan after yield, lines 253-254: `await bot_manager.cleanup()` and only
\* then `await room_pool.cleanup()`; pc is the position of BotManager.cleanup
lifespan_phase_unordered(pc) == "pool_cleanup"
lifespan_phase(pc) == IF pc = "done" THEN "pool_cleanup" ELSE "bot_cleanup"

\* line 219: self.room_mappings.clear()
MappingsKept(maps) == maps
MappingsCleared(maps) == [i \in Conns |-> NoUrl]

\* the loop of cleanup from the item after the one just handled, up to its next
\* await: terminate() and wait_for(proc.wait(), timeout=5), or the two clear()
cleanup_advance(rest, maps) ==
  LET r == SkipExited(rest, proc_state) IN
  IF r = <<>>
    THEN /\ bot_procs' = <<>>
         /\ room_mappings' = MappingsCleared(maps)
         /\ cl_pids' = <<>>
         /\ cl_pc' = "done"
         /\ iv_phase' = lifespan_phase("done")
         /\ UNCHANGED proc_state
    ELSE /\ proc_state' = [proc_state EXCEPT ![Head(r)] = "terminating"]
         /\ cl_pids' = r
         /\ cl_pc' = "wait"
         /\ room_mappings' = maps
         /\ iv_phase' = lifespan_phase("wait")
         /\ UNCHANGED bot_procs

\* lifespan after yield: no request is in flight, bot_manager.cleanup() starts
lifespan_shutdown ==
  /\ IVStep
  /\ iv_phase = "serving"
  /\ \A i \in Conns : iv_conn_pc[i] \in {"new", "done"}
  /\ cl_pc = "idle"
  /\ cleanup_advance(bot_procs, room_mappings)
  /\ UNCHANGED <<ivPoolVars, iv_ar_pc, ivArLocals, ivConnVars, mon_pc, mon_room_url,
                 cl_room_url, cl_woke, pcl_idx, ivProvVars>>

\* wait_for(proc.wait(), timeout=5) returned: lines 207-210 up to the await of
\* delete_room, or on to the next item when the mapping is gone
cleanup_wait_done ==
  /\ IVStep
  /\ cl_pc = "wait"
  /\ proc_state[Head(cl_pids)] = "exited"
  /\ cl_woke' = cl_woke \cup {Head(cl_pids)}
  /\ LET pid == Head(cl_pids)
         maps == MappingAfterPop(room_mappings, pid)
     IN IF room_mappings[pid] # NoUrl
          THEN /\ room_mappings' = maps
               /\ cl_room_url' = room_mappings[pid]
               /\ iv_deleteCalls' = [iv_deleteCalls EXCEPT ![room_mappings[pid]] = @ + 1]
               /\ cl_pc' = "delete"
               /\ UNCHANGED <<cl_pids, bot_procs, proc_state, iv_phase>>
          ELSE /\ cleanup_advance(Tail(cl_pids), maps)
               /\ UNCHANGED <<cl_room_url, iv_deleteCalls>>
  /\ UNCHANGED <<ivPoolVars, iv_ar_pc, ivArLocals, ivConnVars, mon_pc, mon_room_url,
                 pcl_idx, iv_exists>>

\* the process did not exit within the 5 seconds: asyncio.TimeoutError, printed
cleanup_timeout ==
  /\ IVStep
  /\ cl_pc = "wait"
  /\ proc_state[Head(cl_pids)] # "exited"
  /\ cleanup_advance(Tail(cl_pids), room_mappings)
  /\ UNCHANGED <<ivPoolVars, iv_ar_pc, ivArLocals, ivConnVars, mon_pc, mon_room_url,
                 cl_room_url, cl_woke, pcl_idx, ivProvVars>>

\* delete_room returned (print) or raised (`except Exception`, print)
cleanup_deleted(ok) ==
  /\ IVStep
  /\ cl_pc = "delete"
  /\ iv_exists' = IF ok THEN iv_exists \ {cl_room_url} ELSE iv_exists
  /\ cl_room_url' = NoUrl
  /\ cleanup_advance(Tail(cl_pids), room_mappings)
  /\ UNCHANGED <<ivPoolVars, iv_ar_pc, ivArLocals, ivConnVars, mon_pc, mon_room_url,
                 cl_woke, pcl_idx, iv_deleteCalls>>

cleanup_deleted_ok == cleanup_deleted(TRUE)

cleanup_deleted_fail == cleanup_deleted(FALSE)

\* ---- RoomPool.cleanup and the end of lifespan
\* the loop `for rooms in self.pool` from entry k on: the next delete_room call,
\* or the end of the loop and `await aiohttp_session.close()`
pool_cleanup_from(k) ==
  IF k <= Len(iv_pool)
    THEN /\ pcl_idx' = k
         /\ iv_deleteCalls' = [iv_deleteCalls EXCEPT ![iv_pool[k].room_url] = @ + 1]
         /\ UNCHANGED iv_phase
    ELSE /\ iv_phase' = "closed"
         /\ UNCHANGED <<pcl_idx, iv_deleteCalls>>

pool_cleanup ==
  /\ IVStep
  /\ iv_phase = "pool_cleanup"
  /\ pcl_idx = 0
  /\ pool_cleanup_from(1)
  /\ UNCHANGED <<ivPoolVars, iv_ar_pc, ivArLocals, ivConnVars, ivBotVars, ivClVars,
                 iv_exists>>

pool_cleanup_deleted_ok ==
  /\ IVStep
  /\ iv_phase = "pool_cleanup"
  /\ pcl_idx > 0
  /\ iv_exists' = iv_exists \ {iv_pool[pcl_idx].room_url}
  /\ pool_cleanup_from(pcl_idx + 1)
  /\ UNCHANGED <<ivPoolVars, iv_ar_pc, ivArLocals, ivConnVars, ivBotVars, ivClVars>>

\* delete_room raised: cleanup and lifespan end with that exception
pool_cleanup_deleted_fail ==
  /\ IVStep
  /\ iv_phase = "pool_cleanup"
  /\ pcl_idx > 0
  /\ iv_phase' = "aborted"
  /\ UNCHANGED <<ivPoolVars, iv_ar_pc, ivArLocals, ivConnVars, ivBotVars, ivClVars,
                 pcl_idx, ivProvVars>>

\* ------------------------------------------------------------ specifications
\* the instant-voice RoomPool and bot_connect while the app serves, over the
\* first MaxRequests requests
NextIVPool ==
  \/ lifespan_startup
  \/ \E t \in IvArTasks : iv_create_room_ok(t)
  \/ \E t \in IvArTasks : iv_create_room_fail(t)
  \/ \E t \in IvArTasks : iv_user_token_ok(t)
  \/ \E t \in IvArTasks : iv_user_token_fail(t)
  \/ \E t \in IvArTasks : iv_bot_token_ok(t)
  \/ \E t \in IvArTasks : iv_bot_token_fail(t)
  \/ \E t \in IvArTasks : iv_add_room_append(t)
  \/ \E i \in Requests : bot_connect(i)
  \/ \E i \in Requests : iv_get_room(i)
  \/ \E i \in Requests : iv_start_bot_ok(i)
  \/ \E i \in Requests : iv_start_bot_fail(i)

SpecIVPool == InitIV /\ [][NextIVPool]_vars

\* both room pools: a run is a run of one of the two servers
Init == InitVA \/ InitIV

Next == NextPool \/ NextIVPool

Spec == Init /\ [][Next]_vars

\* the instant-voice BotManager over the first MaxSessions requests, with a
\* provisioning service that creates rooms and tokens
NextBots ==
  \/ lifespan_startup
  \/ \E t \in IvArTasks : iv_create_room_ok(t)
  \/ \E t \in IvArTasks : iv_user_token_ok(t)
  \/ \E t \in IvArTasks : iv_bot_token_ok(t)
  \/ \E t \in IvArTasks : iv_add_room_append(t)
  \/ \E i \in Bots : bot_connect(i)
  \/ \E i \in Bots : iv_get_room(i)
  \/ \E i \in Bots : iv_start_bot_ok(i)
  \/ \E i \in Bots : iv_start_bot_fail(i)
  \/ \E pid \in Bots : proc_exit(pid)
  \/ \E pid \in Bots : monitor_start(pid)
  \/ \E pid \in Bots : monitor_wake(pid)
  \/ \E pid \in Bots : monitor_deleted_ok(pid)
  \/ \E pid \in Bots : monitor_deleted_fail(pid)
  \/ lifespan_shutdown
  \/ cleanup_wait_done
  \/ cleanup_timeout
  \/ cleanup_deleted_ok
  \/ cleanup_deleted_fail
  \/ pool_cleanup
  \/ pool_cleanup_deleted_ok
  \/ pool_cleanup_deleted_fail

SpecBots == InitIV /\ [][NextBots]_vars

\* the voice-ai-service sessions over the first MaxSessions requests, with a
\* provisioning service that creates rooms and tokens
NextSessions ==
  \/ startup_event
  \/ startup_done
  \/ \E t \in ArTasks : va_create_room_ok(t)
  \/ \E t \in ArTasks : va_user_token_ok(t)
  \/ \E t \in ArTasks : va_bot_token_ok(t)
  \/ \E t \in ArTasks : va_add_room_append(t)
  \/ \E i \in Sessions : connect(i)
  \/ \E i \in Sessions : va_get_room(i)
  \/ \E s \in Sessions : va_run_bot_initialize(s)
  \/ \E s \in Sessions : va_run_bot_initialize_fail(s)
  \/ \E s \in Sessions : va_run_bot_finish(s)
  \/ \E s \in Sessions : disconnect(s)
  \/ \E s \in Sessions : va_disconnect_finally(s)
  \/ shutdown_event
  \/ va_cleanup
  \/ \E u \in RoomUrls : va_cleanup_delete_ok(u)
  \/ \E u \in RoomUrls : va_cleanup_delete_fail(u)
  \/ va_cleanup_done

SpecSessions == InitVA /\ [][NextSessions]_vars

\* the voice-ai-service sessions and GET /status over the first MaxSessions
\* requests, with a provisioning service that creates rooms and tokens
NextStatus ==
  \/ startup_event
  \/ startup_done
  \/ \E t \in ArTasks : va_create_room_ok(t)
  \/ \E t \in ArTasks : va_user_token_ok(t)
  \/ \E t \in ArTasks : va_bot_token_ok(t)
  \/ \E t \in ArTasks : va_add_room_append(t)
  \/ \E i \in Sessions : connect(i)
  \/ \E i \in Sessions : va_get_room(i)
  \/ \E s \in Sessions : va_run_bot_initialize(s)
  \/ \E s \in Sessions : va_run_bot_initialize_fail(s)
  \/ \E s \in Sessions : va_run_bot_finish(s)
  \/ \E s \in Sessions : va_participant_left(s)
  \/ \E s \in Sessions : va_handle_user_idle(s)
  \/ \E s \in Sessions : get_status(s)

SpecStatus == InitVA /\ [][NextStatus]_vars

\* the same sessions run by the VoiceBotManager of voice-ai-service/bot.py, which
\* adds sleep and wake to the bot of src/bot.py
NextBotStatus ==
  \/ NextStatus
  \/ \E s \in Sessions : sleep(s)
  \/ \E s \in Sessions : wake(s)
  \/ \E s \in Sessions : on_wake_command(s)

SpecBotStatus == InitVA /\ [][NextBotStatus]_vars

\* RoomPool of the voice-ai-service while it serves, with a provisioning service
\* whose every call succeeds; every task that can run is eventually run (the
\* event loop runs every ready task), requests arrive as they please
NextPoolOk ==
  \/ startup_event
  \/ startup_done
  \/ \E t \in ArTasks : va_create_room_ok(t)
  \/ \E t \in ArTasks : va_user_token_ok(t)
  \/ \E t \in ArTasks : va_bot_token_ok(t)
  \/ \E t \in ArTasks : va_add_room_append(t)
  \/ \E i \in Conns : connect(i)
  \/ \E i \in Conns : va_get_room(i)

EventLoop ==
  \/ startup_event
  \/ startup_done
  \/ \E t \in ArTasks : va_create_room_ok(t)
  \/ \E t \in ArTasks : va_user_token_ok(t)
  \/ \E t \in ArTasks : va_bot_token_ok(t)
  \/ \E t \in ArTasks : va_add_room_append(t)
  \/ \E i \in Conns : va_get_room(i)

SpecPoolLive == InitVA /\ [][NextPoolOk]_vars /\ WF_vars(EventLoop)

\* ===================================================================== claims
PoolUrls(p) == {p[n].room_url : n \in 1..Len(p)}

Occurrences(seq, x) == Cardinality({n \in 1..Len(seq) : seq[n] = x})

\* C1: no two get_room() calls ever return the same room_url, in either RoomPool
\* (the provisioning service hands out distinct URLs).
C1_UniqueRooms ==
  \A i, j \in Conns :
    i # j =>
      /\ gr_room[i] # NoUrl /\ gr_room[j] # NoUrl => gr_room[i] # gr_room[j]
      /\ iv_gr_room[i] # NoUrl /\ iv_gr_room[j] # NoUrl => iv_gr_room[i] # iv_gr_room[j]

\* two requests of the instant-voice server each got a room
C1_Witness ==
  \E i, j \in Conns : i # j /\ iv_gr_room[i] # NoUrl /\ iv_gr_room[j] # NoUrl

\* C2: for every session made by connect() from a pooled room, the room's destroy
\* call is issued exactly once over the session's lifetime (bot finished in
\* run_bot, explicit disconnect, or shutdown_event).
SessionOver(s) ==
  /\ bot_room[s] # NoUrl
  /\ \/ s \notin active_bots
     \/ va_phase = "closed"

C2_DestroyOnce ==
  \A s \in Conns : SessionOver(s) => va_deleteCalls[bot_room[s]] = 1

\* C3: once _monitor_process(pid) and BotManager.cleanup() have both finished,
\* delete_room was called exactly once for the room of every started bot.
MonitorFinished(pid) == mon_pc[pid] \in {"done", "KeyError", "raised"}

C3_DeleteOnceWhenBothFinished ==
  \A pid \in Conns :
    (proc_state[pid] # "none" /\ MonitorFinished(pid) /\ cl_pc = "done")
      => iv_deleteCalls[iv_gr_room[pid]] = 1

\* C4: delete_room is never called more than once for the room of a pid, however
\* _monitor_process(pid) and BotManager.cleanup() interleave.
C4_AtMostOneDelete ==
  \A pid \in Conns :
    proc_state[pid] # "none" => iv_deleteCalls[iv_gr_room[pid]] <= 1

\* cleanup and the monitor both woke on the exit of the same process, and the
\* room was deleted once
C4_Witness ==
  \E pid \in Conns :
    /\ pid \in cl_woke
    /\ mon_pc[pid] \in {"delete", "done", "KeyError", "raised"}
    /\ iv_deleteCalls[iv_gr_room[pid]] = 1

\* C5: get_room() on an empty buffer whose on-demand provisioning succeeded goes
\* on and returns that room: the add_room it awaits is never blocked at its
\* `async with self.lock`.
C5_OnDemandReturns ==
  \A i \in Conns :
    (conn_pc[i] = "ondemand" /\ ar_pc[OnDemand(i)] = "lock")
      => ENABLED va_add_room_append(OnDemand(i))

\* C6: when the buffer is empty and the on-demand add_room failed, get_room has
\* raised "No available rooms", no session was registered, no bot task started,
\* the request no longer holds the lock, and the room the on-demand add_room
\* created, if any, has had its destroy call issued.
OnDemandFailed(i) ==
  /\ ar_pc[OnDemand(i)] = "done"
  /\ Occurrences(va_appended, UrlOf(OnDemand(i))) = 0

C7_Status503 ==
  \A i \in Conns :
    /\ gr_err[i] = 503 => conn_status[i] = 503
    /\ iv_gr_err[i] = 503 => iv_conn_status[i] = 503

\* C8: after a get_room() popped from a buffer of pool_size entries, the buffer
\* length eventually is pool_size again (every provisioning call succeeds and
\* every task is eventually run).
C8_Replenished ==
  [](gr_full # {} => <>(Len(va_pool) = pool_size))

\* C9: rooms are handed out in the order they were appended: the sequence of
\* popped rooms is always a prefix of the sequence of appended rooms (both pools).
C9_FIFO ==
  /\ IsPrefix(va_popped, va_appended)
  /\ IsPrefix(iv_popped, iv_appended)

\* the fill task of room 2 appended first, and room 2 was handed out first
C9_Witness ==
  /\ Len(va_popped) >= 2
  /\ va_popped[1] = 2

\* C10: a room is in at most one place, the buffer or one session, and a room
\* that get_room returned is never appended to the buffer again.
C10_ConsumingMove ==
  /\ \A u \in RoomUrls : Occurrences(va_appended, u) <= 1
  /\ \A m, n \in 1..Len(va_pool) : m # n => va_pool[m].room_url # va_pool[n].room_url
  /\ \A s \in Conns : bot_room[s] # NoUrl => bot_room[s] \notin PoolUrls(va_pool)
  /\ \A s, r \in Conns : s # r /\ bot_room[s] # NoUrl => bot_room[s] # bot_room[r]

\* a session holds a room while the replenished buffer is full again
C10_Witness ==
  /\ active_bots # {}
  /\ Len(va_pool) = pool_size
  /\ Len(va_appended) > pool_size

\* C11: in add_room of utils/room_pool.py, a room that was created while a token
\* could not be minted gets its _delete_room call and the buffer stays as it
\* was; when room creation fails the buffer stays as it was and no destroy call
\* is issued.
C11_FailedAddRoom ==
  [][\A t \in ArTasks :
       /\ (/\ ar_pc[t] = "bot_token" /\ ar_pc'[t] # "bot_token"
           /\ (ar_user_token[t] = NoneTok \/ ar_bot_token'[t] = NoneTok))
            => /\ ar_pc'[t] = "delete"
               /\ va_deleteCalls'[ar_room_url[t]] = va_deleteCalls[ar_room_url[t]] + 1
               /\ va_pool' = va_pool
       /\ (ar_pc[t] = "delete" /\ ar_pc'[t] # "delete")
            => ar_pc'[t] = "done" /\ va_pool' = va_pool
       /\ (ar_pc[t] = "create" /\ ar_pc'[t] = "done")
            => va_pool' = va_pool /\ va_deleteCalls' = va_deleteCalls]_vars

\* an add_room of fill_pool ended without a buffer entry, its room destroyed
C11_Witness ==
  \E t \in FillTasks :
    /\ ar_pc[t] = "done"
    /\ Occurrences(va_appended, UrlOf(t)) = 0
    /\ va_deleteCalls[UrlOf(t)] = 1
    /\ Len(va_pool) = Len(va_appended) - Len(va_popped)

\* C12: in add_room of the instant-voice server, a room that was created while
\* a token could not be minted has been destroyed when add_room returns.
C12_IvFailedAddRoomDestroys ==
  \A t \in IvArTasks :
    (/\ iv_ar_pc[t] = "done"
     /\ IvUrlOf(t) \in iv_exists
     /\ Occurrences(iv_appended, IvUrlOf(t)) = 0)
      => iv_deleteCalls[IvUrlOf(t)] >= 1

\* C13: when starting the bot failed after get_room() returned a room, the room
\* has had its delete call by the time the error is answered (bot_connect), or
\* by the time run_bot ended without a pipeline task (connect).
C13_StartFailureDestroysRoom ==
  \A i \in Conns :
    /\ (iv_conn_pc[i] = "done" /\ iv_conn_body[i] = "error" /\ iv_gr_room[i] # NoUrl)
         => iv_deleteCalls[iv_gr_room[i]] >= 1
    /\ (run_pc[i] = "ended" /\ bot_task[i] = "None" /\ bot_room[i] # NoUrl)
         => va_deleteCalls[bot_room[i]] >= 1

\* C14: cleanup() of utils/room_pool.py issues exactly one delete call per
\* entry the buffer holds when it starts, issues no further one for a buffer
\* entry while the gathered calls answer (with success or failure), and leaves
\* the buffer empty when it returns.
C14_CleanupDrains ==
  [][/\ (va_phase = "disconnecting" /\ va_phase' # "disconnecting")
          => \A u \in RoomUrls :
               va_deleteCalls'[u] = va_deleteCalls[u]
                 + Cardinality({n \in 1..Len(va_pool) : va_pool[n].room_url = u})
     /\ va_phase = "cleanup"
          => \A u \in PoolUrls(va_pool) : va_deleteCalls'[u] = va_deleteCalls[u]
     /\ (va_phase # "closed" /\ va_phase' = "closed") => va_pool' = <<>>]_vars

\* cleanup returned after a delete call of a buffer entry failed
C14_Witness ==
  /\ va_phase = "closed"
  /\ va_pool = <<>>
  /\ \E u \in RoomUrls :
       /\ Occurrences(va_appended, u) = 1
       /\ Occurrences(va_popped, u) = 0
       /\ va_deleteCalls[u] = 1
       /\ u \in va_exists

\* C15: once RoomPool.cleanup() of the instant-voice server has ended (by
\* returning or by raising), the buffer is empty and every entry that was in it
\* has had one delete_room call.
C15_IvCleanupDrains ==
  iv_phase \in {"closed", "aborted"} =>
    /\ iv_pool = <<>>
    /\ \A u \in IvRoomUrls :
         (Occurrences(iv_appended, u) = 1 /\ Occurrences(iv_popped, u) = 0)
           => iv_deleteCalls[u] = 1

\* C16: disconnect(session_id) for a session_id that is not in active_bots
\* returns success, issues no destroy call, calls no bot.disconnect and leaves
\* active_bots as it was.
C16_DisconnectUnknown ==
  [][\A s \in Conns :
       (disc_pc[s] = "idle" /\ disc_pc'[s] # "idle" /\ s \notin active_bots)
         => /\ disc_pc'[s] = "done"
            /\ disc_result'[s] = "success"
            /\ va_deleteCalls' = va_deleteCalls
            /\ bot_disconnects' = bot_disconnects
            /\ bot_task' = bot_task
            /\ active_bots' = active_bots]_vars

\* run_bot removed the session, then its disconnect request was answered
C16_Witness ==
  \E s \in Conns :
    /\ bot_room[s] # NoUrl
    /\ run_pc[s] = "ended"
    /\ disc_pc[s] = "done"
    /\ disc_result[s] = "success"
    /\ bot_disconnects[s] = 0

\* C17: disconnect(session_id) for a session in active_bots always returns
\* success, with the session absent from active_bots, whatever bot.disconnect()
\* does and however run_bot's own removal interleaves.
C17_DisconnectKnown ==
  \A s \in Conns :
    (disc_pc[s] = "done" /\ bot_disconnects[s] > 0 /\ va_phase = "serving")
      => disc_result[s] = "success" /\ s \notin active_bots

\* a session whose pipeline task disconnect cancelled and whose run_bot ended
\* was disconnected with success
C17_Witness ==
  \E s \in Conns :
    /\ va_phase = "serving"
    /\ disc_pc[s] = "done"
    /\ disc_result[s] = "success"
    /\ bot_disconnects[s] = 1
    /\ bot_task[s] = "cancelled"
    /\ run_pc[s] = "ended"

\* C18: get_status(session_id) answers 404 exactly when session_id is not in
\* active_bots, else the session's id, status and metrics; it changes neither
\* active_bots nor the status of a bot.
C18_GetStatus ==
  [][gs_resp' # gs_resp =>
       LET s == gs_resp'.session_id IN
       /\ gs_resp'.code = 404 <=> s \notin active_bots
       /\ s \in active_bots =>
            /\ gs_resp'.code = 200
            /\ gs_resp'.status = bot_status[s]
            /\ gs_resp'.metrics = bot_metrics[s]
       /\ active_bots' = active_bots
       /\ bot_status' = bot_status]_vars

\* an idle session was reported, with its updated metrics
C18_Witness ==
  /\ gs_resp.code = 200
  /\ gs_resp.status = "idle"
  /\ gs_resp.metrics = "updated"
  /\ gs_resp.session_id \in active_bots

\* C19: after BotManager.cleanup() has returned, every bot process has
\* terminated (a process that did not exit within the 5 seconds was killed).
C19_AllProcessesTerminated ==
  cl_pc = "done" => \A pid \in Conns : proc_state[pid] \in {"none", "exited"}

\* C20: shutdown of the instant-voice server runs BotManager.cleanup to its end,
\* then RoomPool.cleanup, then closes the client session: no pool room gets a
\* delete call before BotManager.cleanup has finished, and the client session is
\* closed only from the end of the drain, every buffer entry having had its call.
C20_ShutdownOrder ==
  /\ [](\A u \in PoolUrls(iv_pool) : iv_deleteCalls[u] > 0 => cl_pc = "done")
  /\ [](iv_phase \in {"pool_cleanup", "closed"} => cl_pc = "done")
  /\ [][(iv_phase # "closed" /\ iv_phase' = "closed")
          => /\ iv_phase = "pool_cleanup"
             /\ \A u \in PoolUrls(iv_pool) : iv_deleteCalls'[u] >= 1]_vars

\* the client session was closed after a bot was waited for and a pool room
\* deleted
C20_Witness ==
  /\ iv_phase = "closed"
  /\ cl_woke # {}
  /\ \E u \in PoolUrls(iv_pool) : iv_deleteCalls[u] = 1

\* C21: when shutdown_event of the voice-ai-service has ended, the aiohttp
\* client session that startup_event created is closed.
C21_ShutdownClosesClient ==
  va_phase = "closed" => va_client = "closed"

\* C22: in the instant-voice BotManager no pid of a started bot is absent from
\* bot_procs while delete_room was never called for its room.
C22_RemovedOnlyAfterDestroy ==
  \A pid \in Conns :
    (proc_state[pid] # "none" /\ ~InProcs(pid, bot_procs))
      => iv_deleteCalls[iv_gr_room[pid]] >= 1

\* C23: once the bot of a session has stopped, run_bot has ended without raising
\* and the session is out of active_bots; a disconnect answered after that
\* returns success, calls no bot.disconnect and issues no destroy call.
C23_StoppedBotRemoved ==
  /\ [](\A s \in Conns :
         /\ run_pc[s] \in {"none", "scheduled", "running", "ended"}
         /\ run_pc[s] = "ended" => s \notin active_bots)
  /\ [][\A s \in Conns :
         (run_pc[s] = "ended" /\ disc_pc[s] = "idle" /\ disc_pc'[s] # "idle")
           => /\ disc_pc'[s] = "done"
              /\ disc_result'[s] = "success"
              /\ bot_disconnects'[s] = bot_disconnects[s]
              /\ va_deleteCalls' = va_deleteCalls]_vars

\* bot.run() of a session ended, and a later disconnect was answered
C23_Witness ==
  \E s \in Conns :
    /\ bot_task[s] = "created"
    /\ run_pc[s] = "ended"
    /\ s \notin active_bots
    /\ disc_result[s] = "success"
    /\ bot_disconnects[s] = 0

\* C24: every change of VoiceBotManager.status is an edge of the session state
\* machine: initializing -> active, active -> idle, active -> sleeping,
\* idle -> active, sleeping -> active; in particular status never goes from
\* initializing or sleeping directly to idle.
StatusEdges ==
  { <<"initializing", "active">>, <<"active", "idle">>, <<"active", "sleeping">>,
    <<"idle", "active">>, <<"sleeping", "active">> }

C24_StatusEdges ==
  [][\A s \in Conns : bot_status'[s] # bot_status[s]
        => <<bot_status[s], bot_status'[s]>> \in StatusEdges]_vars

\* C25: fill_pool(n) is best-effort in both pools: whatever subset of its n
\* add_room operations fail it returns normally, and with no get_room running
\* (the server has not started serving) the buffer grows by exactly one for each
\* add_room whose room creation and both token mints succeeded, and by nothing
\* else; at the end the voice-ai-service buffer holds as many entries as rooms
\* were created and never deleted for a missing token.
FillSucceeded(t) ==
  /\ ar_pc[t] = "lock"
  /\ ar_room_url[t] # NoUrl /\ ar_user_token[t] # NoneTok /\ ar_bot_token[t] # NoneTok

IvFillSucceeded(t) ==
  /\ iv_ar_pc[t] = "lock"
  /\ iv_ar_room_url[t] # NoUrl /\ iv_ar_user_token[t] # NoneTok
  /\ iv_ar_bot_token[t] # NoneTok

FillReturned == va_phase = "startup" /\ \A t \in FillTasks : ar_pc[t] = "done"

C25_FillBestEffort ==
  /\ [](FillReturned =>
          Len(va_pool) = Cardinality({t \in FillTasks :
                            UrlOf(t) \in va_exists /\ va_deleteCalls[UrlOf(t)] = 0}))
  /\ [][(server = "va" /\ va_phase = "startup") =>
          /\ va_phase' \in {"startup", "serving"}
          /\ \A t \in FillTasks : ar_pc[t] = "done" => ar_pc'[t] = "done"
          /\ Len(va_pool') = Len(va_pool) + Cardinality({t \in FillTasks :
                                 FillSucceeded(t) /\ ar_pc'[t] = "done"})
          /\ \A t \in FillTasks : (ar_pc[t] # "done" /\ ar_pc'[t] = "done"
                                      /\ ~FillSucceeded(t)) => va_pool' = va_pool]_vars
  /\ [][(server = "iv" /\ iv_phase = "startup") =>
          /\ iv_phase' \in {"startup", "serving"}
          /\ \A t \in IvFillTasks : iv_ar_pc[t] = "done" => iv_ar_pc'[t] = "done"
          /\ Len(iv_pool') = Len(iv_pool) + Cardinality({t \in IvFillTasks :
                                 IvFillSucceeded(t) /\ iv_ar_pc'[t] = "done"})
          /\ \A t \in IvFillTasks : (iv_ar_pc[t] # "done" /\ iv_ar_pc'[t] = "done"
                                        /\ ~IvFillSucceeded(t)) => iv_pool' = iv_pool]_vars

\* fill_pool returned after one of its two add_room operations failed
C25_Witness ==
  /\ FillReturned
  /\ Len(va_pool) = 1
  /\ \E t \in FillTasks : UrlOf(t) \notin va_exists \/ va_deleteCalls[UrlOf(t)] > 0

\* C26: in both pools a get_room that returns a room schedules one background
\* add_room, and the lock is free when it does; a get_room that raised schedules
\* none; a background add_room is scheduled once and, when it fails, changes
\* neither the buffer nor the answer or position of any request.
BackgroundFailed(pcs, pcs2, i) ==
  /\ pcs[Background(i)] \notin {"none", "lock", "done"}
  /\ pcs2[Background(i)] = "done"

C26_Replenish ==
  /\ [](\A i \in Conns :
          /\ ar_pc[Background(i)] # "none" <=> gr_room[i] # NoUrl
          /\ gr_err[i] # 0 => ar_pc[Background(i)] = "none"
          /\ iv_ar_pc[Background(i)] # "none" <=> iv_gr_room[i] # NoUrl
          /\ iv_gr_err[i] # 0 => iv_ar_pc[Background(i)] = "none")
  /\ [][\A i \in Conns :
          /\ (ar_pc[Background(i)] = "none" /\ ar_pc'[Background(i)] # "none")
               => /\ ar_pc'[Background(i)] = "create"
                  /\ va_lock' = NoTask
                  /\ gr_room[i] = NoUrl /\ gr_room'[i] # NoUrl
          /\ ar_pc[Background(i)] = "done" => ar_pc'[Background(i)] = "done"
          /\ BackgroundFailed(ar_pc, ar_pc', i)
               => /\ va_pool' = va_pool
                  /\ <<conn_pc, conn_status, gr_room, gr_err>>' =
                       <<conn_pc, conn_status, gr_room, gr_err>>
          /\ (iv_ar_pc[Background(i)] = "none" /\ iv_ar_pc'[Background(i)] # "none")
               => /\ iv_ar_pc'[Background(i)] = "create"
                  /\ iv_lock' = NoTask
                  /\ iv_gr_room[i] = NoUrl /\ iv_gr_room'[i] # NoUrl
          /\ iv_ar_pc[Background(i)] = "done" => iv_ar_pc'[Background(i)] = "done"
          /\ BackgroundFailed(iv_ar_pc, iv_ar_pc', i)
               => /\ iv_pool' = iv_pool
                  /\ <<iv_conn_pc, iv_conn_status, iv_conn_body, iv_gr_room, iv_gr_err>>' =
                       <<iv_conn_pc, iv_conn_status, iv_conn_body, iv_gr_room, iv_gr_err>>]_vars

\* a request was answered with a room and its background add_room has failed,
\* while another request's get_room raised and scheduled nothing
C26_Witness ==
  \E i, k \in Conns :
    /\ conn_status[i] = 200 /\ gr_room[i] # NoUrl
    /\ ar_pc[Background(i)] = "done"
    /\ UrlOf(Background(i)) \notin Range(va_appended)
    /\ gr_err[k] = 503 /\ ar_pc[Background(k)] = "none"

\* C27: in every reachable state every entry of the buffer, in both pools, has
\* a room_url, a user_token and a bot_token that are not empty.
EntryComplete(e) ==
  e.room_url # NoUrl /\ e.user_token # NoneTok /\ e.bot_token # NoneTok

C27_EntriesComplete ==
  /\ \A n \in 1..Len(va_pool) : EntryComplete(va_pool[n])
  /\ \A n \in 1..Len(iv_pool) : EntryComplete(iv_pool[n])

\* the buffer holds an entry although the provisioning of another room failed
\* at a token and that room was deleted
C27_Witness ==
  /\ Len(va_pool) >= 1
  /\ \E u \in RoomUrls : va_deleteCalls[u] > 0 /\ u \notin Range(va_appended)

\* C28: in both pools every append of add_room and every pop of get_room is made
\* by a task that holds the lock: the lock was free when the task asked for it,
\* or, for a pop, it is held by the very request that pops; the lock has at most
\* one holder, a request inside get_room; and a step makes one append or one pop,
\* never two.
C28_MutationsLocked ==
  /\ [](/\ va_lock = NoTask \/ \E i \in Conns : va_lock = ConnTask(i) /\ conn_pc[i] = "ondemand"
        /\ iv_lock = NoTask \/ \E i \in Conns : iv_lock = ConnTask(i))
  /\ [][/\ va_appended' # va_appended => va_lock = NoTask
        /\ va_popped' # va_popped =>
              \/ va_lock = NoTask
              \/ \E i \in Conns : /\ va_lock = ConnTask(i)
                                   /\ gr_room[i] = NoUrl /\ gr_room'[i] # NoUrl
        /\ Len(va_appended') + Len(va_popped') <= Len(va_appended) + Len(va_popped) + 1
        /\ iv_appended' # iv_appended => iv_lock = NoTask
        /\ iv_popped' # iv_popped => iv_lock = NoTask
        /\ Len(iv_appended') + Len(iv_popped') <= Len(iv_appended) + Len(iv_popped) + 1]_vars

\* a request holds the lock inside get_room while an add_room that has its room
\* and tokens waits for the lock to append, after an earlier pop
C28_Witness ==
  \E i \in Conns, t \in ArTasks :
    /\ va_lock = ConnTask(i)
    /\ ar_pc[t] = "lock"
    /\ Len(va_popped) >= 1

\* C29: in the instant-voice server a get_room that finds the buffer empty
\* raises the 503 error in the step in which it got the lock: no provisioning
\* call is made, no add_room is scheduled, the buffer stays empty and the lock
\* is free afterwards; and a request fails with 503 only on an empty buffer.
C29_IvEmptyFailsFast ==
  /\ [](\A i \in Conns : iv_gr_err[i] # 0 =>
            /\ iv_gr_err[i] = 503
            /\ iv_gr_room[i] = NoUrl
            /\ iv_ar_pc[Background(i)] = "none")
  /\ [][\A i \in Conns :
          /\ (iv_conn_pc[i] = "lock" /\ iv_conn_pc'[i] # "lock" /\ iv_pool = <<>>)
               => iv_gr_err'[i] = 503
          /\ iv_gr_err'[i] # iv_gr_err[i]
               => /\ iv_conn_pc[i] = "lock"
                  /\ iv_pool = <<>> /\ iv_pool' = <<>>
                  /\ iv_lock' = NoTask
                  /\ iv_ar_pc' = iv_ar_pc
                  /\ <<iv_exists, iv_deleteCalls, iv_appended, iv_popped>>' =
                       <<iv_exists, iv_deleteCalls, iv_appended, iv_popped>>]_vars

\* a request found the buffer empty after an earlier request took its only room
C29_Witness ==
  \E i \in Conns :
    /\ iv_gr_err[i] = 503
    /\ Len(iv_popped) >= 1
    /\ iv_pool = <<>> /\ iv_lock = NoTask

\* C30: in both pools, filled once at startup and then used through get_room,
\* the length of the buffer plus the number of background add_room tasks that
\* were scheduled and have not finished never exceeds the target size.
InFlight(pcs) == {i \in Conns : pcs[Background(i)] \notin {"none", "done"}}

C30_NeverOverfilled ==
  /\ Len(va_pool) + Cardinality(InFlight(ar_pc)) <= pool_size
  /\ Len(iv_pool) + Cardinality(InFlight(iv_ar_pc)) <= NUMBER_OF_ROOMS

\* a full buffer was popped twice; one replenishment is back in the buffer and
\* the other is still in flight
C30_Witness ==
  /\ Len(va_popped) = 2
  /\ Len(va_pool) = 1
  /\ Cardinality(InFlight(ar_pc)) = 1
  /\ \E i \in Conns : UrlOf(Background(i)) \in PoolUrls(va_pool)

\* C31: in the voice-ai-service, once cleanup() has returned and every add_room
\* has finished, every room that exists on the provisioning service was handed
\* to a session by get_room or had a _delete_room call issued for it, also when
\* a background add_room was in flight while cleanup() ran.
C31_NoRoomLeaked ==
  (va_phase = "closed" /\ \A t \in ArTasks : ar_pc[t] \in {"none", "done"})
    => \A u \in va_exists : u \in Range(va_popped) \/ va_deleteCalls[u] >= 1

\* C32: in the instant-voice BotManager, whenever _monitor_process(pid) reaches
\* `del self.bot_procs[pid]`, pid is still a key of bot_procs, whatever
\* BotManager.cleanup() did meanwhile: no monitor task ends with a KeyError.
C32_MonitorKeyPresent ==
  \A pid \in Conns :
    /\ mon_pc[pid] # "KeyError"
    /\ mon_pc[pid] = "delete" => InProcs(pid, bot_procs)

\* C33: in the voice-ai-service, after disconnect(session_id) answered success
\* for a session that was in active_bots (bot.disconnect() was called), the
\* session's bot is not running with a pipeline task that was never cancelled,
\* also when the disconnect arrived before run_bot called bot.initialize().
C33_DisconnectedBotStops ==
  \A s \in Conns :
    (va_phase = "serving" /\ disc_result[s] = "success" /\ bot_disconnects[s] >= 1)
      => ~(run_pc[s] = "running" /\ bot_task[s] = "created")

\* C34: in the instant-voice BotManager, in every reachable state every pid
\* that has a room mapping is a key of bot_procs, whatever the interleaving of
\* start_bot, _monitor_process and cleanup.
C34_MappingsWithinProcs ==
  \A pid \in Conns : room_mappings[pid] # NoUrl => InProcs(pid, bot_procs)

\* cleanup gave up waiting for a bot process that is still terminating, and its
\* two clear() calls removed the process and the mapping it had left behind
C34_Witness ==
  \E pid \in Conns :
    /\ cl_pc = "done"
    /\ proc_state[pid] = "terminating"
    /\ pid \notin cl_woke
    /\ iv_gr_room[pid] # NoUrl
    /\ room_mappings[pid] = NoUrl /\ ~InProcs(pid, bot_procs)

\* ============================================== VoiceBotManager taken alone
\* the bot of voice-ai-service/bot.py; src/bot.py is the same bot without sleep,
\* wake and on_wake_command
BotStep == server = "bot" /\ UNCHANGED <<server, vaVars, ivVars, obVars, ttsVars>>

RetryCounts == 0..MaxRetryCount

\* one entry of the history: the call, its argument, the status and the sizes
\* before it, and what it returned
Called(op, arg, ret) ==
  [op |-> op, arg |-> arg, ret |-> ret, status |-> vb_status,
   messages |-> vb_messages, endframes |-> vb_endframes]

\* initialize(): the pipeline and its task are built, status = "active"
vb_initialize ==
  /\ BotStep
  /\ vb_status = "initializing"
  /\ vb_log = <<>>
  /\ vb_status' = "active"
  /\ UNCHANGED <<vb_messages, vb_endframes, vb_log>>

\* sleep(): `if self.status == "active": self.status = "sleeping"; ...; return True`,
\* else `return False`
SleepStatusAlways(st) == "sleeping"
SleepStatus(st) == IF st = "active" THEN "sleeping" ELSE st

SleepResult(st) == st = "active"

vb_sleep ==
  /\ BotStep
  /\ Len(vb_log) < MaxCalls
  /\ vb_status' = SleepStatus(vb_status)
  /\ vb_log' = Append(vb_log, Called("sleep", 0, SleepResult(vb_status)))
  /\ UNCHANGED <<vb_messages, vb_endframes>>

\* wake(): `if self.status == "sleeping": self.status = "active"; ...; return True`,
\* else `return False`
WakeResult(st) == st = "sleeping"

vb_wake ==
  /\ BotStep
  /\ Len(vb_log) < MaxCalls
  /\ vb_status' = WakeStatus(vb_status)
  /\ vb_log' = Append(vb_log, Called("wake", 0, WakeResult(vb_status)))
  /\ UNCHANGED <<vb_messages, vb_endframes>>

\* on_participant_left: self.status = "idle" (the handler returns nothing)
vb_participant_left ==
  /\ BotStep
  /\ vb_status # "initializing"
  /\ Len(vb_log) < MaxCalls
  /\ vb_status' = "idle"
  /\ vb_log' = Append(vb_log, Called("on_participant_left", 0, FALSE))
  /\ UNCHANGED <<vb_messages, vb_endframes>>

\* handle_user_idle: the branch on retry_count
IdlePrompts(rc) == rc = 1 \/ rc = 2

\* what handle_user_idle appends to self.messages
IdleAppendsAlways(rc) == 1
IdleAppends(rc) == IF IdlePrompts(rc) THEN 1 ELSE 0

\* the EndFrames it queues and what it returns
IdleEndFrames(rc) == IF IdlePrompts(rc) THEN 0 ELSE 1

IdleResult(rc) == IdlePrompts(rc)

\* handle_user_idle(user_idle, retry_count), called by the UserIdleProcessor of
\* the running pipeline
vb_handle_user_idle(rc) ==
  /\ BotStep
  /\ vb_status # "initializing"
  /\ Len(vb_log) < MaxCalls
  /\ vb_status' = "idle"
  /\ vb_messages' = vb_messages + IdleAppends(rc)
  /\ vb_endframes' = vb_endframes + IdleEndFrames(rc)
  /\ vb_log' = Append(vb_log, Called("handle_user_idle", rc, IdleResult(rc)))

NextBot ==
  \/ vb_initialize
  \/ vb_sleep
  \/ vb_wake
  \/ vb_participant_left
  \/ \E rc \in RetryCounts : vb_handle_user_idle(rc)

InitBot == server = "bot" /\ InitVAVars /\ InitIVVars /\ InitUnitVars

SpecBot == InitBot /\ [][NextBot]_vars

\* the status a call of the history left behind: the status the next call
\* found, or the present one
StatusAfter(n) == IF n < Len(vb_log) THEN vb_log[n + 1].status ELSE vb_status

MessagesAfter(n) == IF n < Len(vb_log) THEN vb_log[n + 1].messages ELSE vb_messages

EndFramesAfter(n) == IF n < Len(vb_log) THEN vb_log[n + 1].endframes ELSE vb_endframes

\* C35: in the bot of voice-ai-service/bot.py sleep() changes status only from
\* "active" to "sleeping" and returns True, wake() only from "sleeping" to
\* "active" and returns True; in any other status each returns False and leaves
\* status as it was; so sleep() followed by wake() from "active" gives "active".
C35_SleepWake ==
  \A n \in 1..Len(vb_log) :
    LET c == vb_log[n] IN
    /\ c.op = "sleep" =>
         IF c.status = "active" THEN StatusAfter(n) = "sleeping" /\ c.ret = TRUE
                                ELSE StatusAfter(n) = c.status /\ c.ret = FALSE
    /\ c.op = "wake" =>
         IF c.status = "sleeping" THEN StatusAfter(n) = "active" /\ c.ret = TRUE
                                  ELSE StatusAfter(n) = c.status /\ c.ret = FALSE
    /\ (c.op = "sleep" /\ c.status = "active" /\ n < Len(vb_log) /\ vb_log[n + 1].op = "wake")
         => StatusAfter(n + 1) = "active"

\* wake() on an active bot returned False, then sleep() and wake() returned True
C35_Witness ==
  /\ Len(vb_log) = 3
  /\ vb_log[1].op = "wake" /\ vb_log[1].status = "active" /\ vb_log[1].ret = FALSE
  /\ vb_log[2].op = "sleep" /\ vb_log[2].ret = TRUE
  /\ vb_log[3].op = "wake" /\ vb_log[3].ret = TRUE
  /\ vb_status = "active"

\* C36: handle_user_idle escalates: for retry_count 1 and 2 it appends exactly
\* one system message to the bot's messages, queues no EndFrame and returns
\* True; for every other retry_count it appends nothing, queues one EndFrame and
\* returns False; in all cases it leaves status "idle".
C36_IdleEscalation ==
  \A n \in 1..Len(vb_log) :
    LET c == vb_log[n] IN
    c.op = "handle_user_idle" =>
      /\ StatusAfter(n) = "idle"
      /\ IF c.arg \in {1, 2}
           THEN /\ MessagesAfter(n) = c.messages + 1
                /\ EndFramesAfter(n) = c.endframes
                /\ c.ret = TRUE
           ELSE /\ MessagesAfter(n) = c.messages
                /\ EndFramesAfter(n) = c.endframes + 1
                /\ c.ret = FALSE

\* the idle processor called with retry_count 1, 2 and 3 in turn on an active bot
C36_Witness ==
  /\ Len(vb_log) = 3
  /\ \A n \in 1..3 : vb_log[n].op = "handle_user_idle" /\ vb_log[n].arg = n
  /\ vb_log[1].status = "active"
  /\ vb_messages = 3 /\ vb_endframes = 1 /\ vb_status = "idle"

\* ============================================== VoiceBotObserver taken alone
ObsStep == server = "obs" /\ UNCHANGED <<server, vaVars, ivVars, vbVars, ttsVars>>

\* self.metrics[key] += amount: a KeyError when the dictionary has no such key
HasKeyAlways(metrics, key) == TRUE
HasKey(metrics, key) == key \in DOMAIN metrics

\* self.metrics[key] = value: the key is created when it is missing
SetKey(metrics, key, value) ==
  [k \in DOMAIN metrics \cup {key} |-> IF k = key THEN value ELSE metrics[k]]

\* `self.metrics["interruptions"] += 1`
CountInterruptionTwice(n) == n + 2
CountInterruption(n) == n + 1

\* the frame is a StartInterruptionFrame
ob_interruption ==
  /\ ob_metrics' = SetKey(ob_metrics, "interruptions", CountInterruption(ob_metrics["interruptions"]))
  /\ UNCHANGED <<ob_speaking_start_time, ob_last_turn_start_time,
                 ob_total_response_time, ob_response_count, ob_raised>>

\* the frame is a BotStartedSpeakingFrame: a response-time sample when a user
\* turn is waiting for its answer; avg_response_time is kept as the pair of the
\* total and the count it is the quotient of
ob_bot_started(time_sec) ==
  /\ ob_speaking_start_time' = <<time_sec>>
  /\ IF ob_last_turn_start_time # <<>>
       THEN LET response_time == time_sec - ob_last_turn_start_time[1] IN
            /\ ob_total_response_time' = ob_total_response_time + response_time
            /\ ob_response_count' = ob_response_count + 1
            /\ ob_metrics' = SetKey(ob_metrics, "avg_response_time",
                                    <<ob_total_response_time + response_time,
                                      ob_response_count + 1>>)
            /\ ob_last_turn_start_time' = <<>>
       ELSE UNCHANGED <<ob_total_response_time, ob_response_count, ob_metrics,
                        ob_last_turn_start_time>>
  /\ UNCHANGED ob_raised

\* the frame is a BotStoppedSpeakingFrame
ob_bot_stopped(time_sec) ==
  IF ob_speaking_start_time # <<>>
    THEN IF HasKey(ob_metrics, "bot_speaking_time")
           THEN /\ ob_metrics' = SetKey(ob_metrics, "bot_speaking_time",
                       ob_metrics["bot_speaking_time"] + (time_sec - ob_speaking_start_time[1]))
                /\ ob_speaking_start_time' = <<>>
                /\ UNCHANGED <<ob_last_turn_start_time, ob_total_response_time,
                               ob_response_count, ob_raised>>
           ELSE /\ ob_raised' = ob_raised \cup {"KeyError"}
                /\ UNCHANGED <<ob_metrics, ob_speaking_start_time, ob_last_turn_start_time,
                               ob_total_response_time, ob_response_count>>
    ELSE UNCHANGED <<ob_metrics, ob_speaking_start_time, ob_last_turn_start_time,
                     ob_total_response_time, ob_response_count, ob_raised>>

\* the frame is a UserStoppedSpeakingFrame
ob_user_stopped(time_sec) ==
  /\ ob_metrics' = SetKey(ob_metrics, "total_turns", ob_metrics["total_turns"] + 1)
  /\ ob_last_turn_start_time' = <<time_sec>>
  /\ UNCHANGED <<ob_speaking_start_time, ob_total_response_time, ob_response_count,
                 ob_raised>>

\* the number of frames the observer was given
FramesSeen == ob_seen["StartInterruptionFrame"] + ob_seen["BotStartedSpeakingFrame"]
              + ob_seen["BotStoppedSpeakingFrame"] + ob_seen["UserStoppedSpeakingFrame"]
              + ob_seen["LLMFullResponseEndFrame"] + ob_seen["Frame"]

\* on_push_frame(src, dst, frame, direction, timestamp): the clock has moved on
\* by dt seconds since the frame before
on_push_frame(kind, dt) ==
  /\ ObsStep
  /\ FramesSeen < MaxFrames
  /\ ob_now + dt <= MaxTime
  /\ ob_now' = ob_now + dt
  /\ ob_seen' = [ob_seen EXCEPT ![kind] = @ + 1]
  /\ UNCHANGED ob_owner
  /\ LET time_sec == ob_now + dt IN
     CASE kind = "StartInterruptionFrame" -> ob_interruption
       [] kind = "BotStartedSpeakingFrame" -> ob_bot_started(time_sec)
       [] kind = "BotStoppedSpeakingFrame" -> ob_bot_stopped(time_sec)
       [] kind = "UserStoppedSpeakingFrame" -> ob_user_stopped(time_sec)
       [] OTHER -> UNCHANGED <<ob_metrics, ob_speaking_start_time,
                               ob_last_turn_start_time, ob_total_response_time,
                               ob_response_count, ob_raised>>

NextObs == \E kind \in FrameKinds, dt \in 0..1 : on_push_frame(kind, dt)

InitObs == server = "obs" /\ InitVAVars /\ InitIVVars /\ InitVBVars /\ InitOBVars /\ InitTTSIdle

SpecObs == InitObs /\ [][NextObs]_vars

\* C37: over any sequence of frames the VoiceBotObserver's "interruptions" is
\* the number of StartInterruptionFrames seen and "total_turns" the number of
\* UserStoppedSpeakingFrames seen; a response-time sample is taken only at a
\* BotStartedSpeakingFrame that finds a user turn waiting, which it then clears,
\* so a turn gives at most one sample and the samples never outnumber the turns.
C37_ObserverCounts ==
  /\ [](/\ ob_metrics["interruptions"] = ob_seen["StartInterruptionFrame"]
        /\ ob_metrics["total_turns"] = ob_seen["UserStoppedSpeakingFrame"]
        /\ ob_response_count + (IF ob_last_turn_start_time # <<>> THEN 1 ELSE 0)
             <= ob_metrics["total_turns"])
  /\ [][ob_response_count' # ob_response_count =>
          /\ ob_response_count' = ob_response_count + 1
          /\ ob_seen'["BotStartedSpeakingFrame"] = ob_seen["BotStartedSpeakingFrame"] + 1
          /\ ob_last_turn_start_time # <<>>
          /\ ob_last_turn_start_time' = <<>>]_vars

\* one user turn, answered: the second BotStartedSpeakingFrame gave no sample
C37_Witness ==
  /\ ob_seen["UserStoppedSpeakingFrame"] = 1
  /\ ob_seen["BotStartedSpeakingFrame"] = 2
  /\ ob_seen["StartInterruptionFrame"] = 1
  /\ ob_response_count = 1
  /\ ob_metrics["interruptions"] = 1 /\ ob_metrics["total_turns"] = 1

\* C38: a VoiceBotObserver built with the metrics dictionary of a
\* VoiceBotManager, of bot.py or of src/bot.py, handles every sequence of frames
\* without an error: no on_push_frame call ends with a missing metrics key.
C38_ObserverNeverRaises ==
  ob_owner \in {"bot.py", "src/bot.py"} => ob_raised = {}

\* ============================================== HumeTTSService taken alone
\* run_tts, one invocation after the other; the awaits of the metrics and of
\* the audio context return, the calls to the Hume API return or raise
TtsStep == server = "tts" /\ UNCHANGED <<server, vaVars, ivVars, vbVars, obVars>>

\* lines 258-310: TTSStartedFrame is yielded, the context id and the utterance
\* are made, and the first synthesize_json call is issued
run_tts ==
  /\ TtsStep
  /\ tts_pc = "idle"
  /\ tts_runs < MaxRuns
  /\ tts_runs' = tts_runs + 1
  /\ tts_frames' = <<"TTSStartedFrame">>
  /\ tts_context_id' = "uuid"
  /\ tts_synth' = 1
  /\ tts_first' = "pending"
  /\ tts_pc' = "synthesize"
  /\ UNCHANGED <<tts_voice_id, tts_voice_name, tts_has_saved_voice,
                 tts_last_generation_id, tts_audio, tts_saves>>

\* the outer `except Exception`: ErrorFrame is yielded, _context_id = None
tts_raise ==
  /\ tts_frames' = Append(tts_frames, "ErrorFrame")
  /\ tts_context_id' = "None"
  /\ tts_pc' = "idle"
  /\ tts_audio' = "none"

\* lines 373-402: the audio of the generation is decoded (an error for data
\* that is no base64), its frame is yielded, then TTSStoppedFrame
tts_process_audio(audio) ==
  IF audio = "malformed"
    THEN tts_raise
    ELSE /\ tts_frames' = tts_frames \o (IF audio = "audio" THEN <<"TTSAudioRawFrame">> ELSE <<>>)
                                      \o <<"TTSStoppedFrame">>
         /\ tts_pc' = "idle"
         /\ tts_audio' = "none"
         /\ UNCHANGED tts_context_id

\* line 358: `if not self._has_saved_voice and not self._voice_id and not
\* self._voice_name`
NeedsSaveAgain(saved, vid, vname) == vid = "None" /\ vname = "None"
NeedsSave(saved, vid, vname) == ~saved /\ vid = "None" /\ vname = "None"

\* lines 347-371: a response arrived, with generations or without
tts_response(generations, audio, vid, vname) ==
  IF ~generations
    THEN /\ tts_frames' = Append(tts_frames, "ErrorFrame")
         /\ tts_pc' = "idle"
         /\ tts_audio' = "none"
         /\ UNCHANGED <<tts_context_id, tts_last_generation_id>>
    ELSE /\ tts_last_generation_id' = "generation"
         /\ IF NeedsSave(tts_has_saved_voice, vid, vname)
              THEN /\ tts_pc' = "save"
                   /\ tts_audio' = audio
                   /\ UNCHANGED <<tts_frames, tts_context_id>>
              ELSE tts_process_audio(audio)

\* the first synthesize_json call returned
tts_synthesize_ok(generations, audio) ==
  /\ TtsStep
  /\ tts_pc = "synthesize"
  /\ tts_first' = "ok"
  /\ tts_response(generations, audio, tts_voice_id, tts_voice_name)
  /\ UNCHANGED <<tts_voice_id, tts_voice_name, tts_has_saved_voice, tts_synth,
                 tts_saves, tts_runs>>

\* the retry of lines 318-339: only for an error that says "not found" or
\* "does not exist"
Retry(error) == error = "not found"

\* the first synthesize_json call raised: on a voice that was not found the
\* voice id and name are cleared and a second call is issued, any other error
\* is raised again
tts_synthesize_fail(error) ==
  /\ TtsStep
  /\ tts_pc = "synthesize"
  /\ tts_first' = error
  /\ IF Retry(error)
       THEN /\ tts_voice_id' = "None"
            /\ tts_voice_name' = "None"
            /\ tts_synth' = tts_synth + 1
            /\ tts_pc' = "retry"
            /\ UNCHANGED <<tts_frames, tts_context_id, tts_audio>>
       ELSE /\ tts_raise
            /\ UNCHANGED <<tts_voice_id, tts_voice_name, tts_synth>>
  /\ UNCHANGED <<tts_has_saved_voice, tts_last_generation_id, tts_saves, tts_runs>>

\* the second synthesize_json call returned
tts_retry_ok(generations, audio) ==
  /\ TtsStep
  /\ tts_pc = "retry"
  /\ tts_response(generations, audio, tts_voice_id, tts_voice_name)
  /\ UNCHANGED <<tts_voice_id, tts_voice_name, tts_has_saved_voice, tts_synth,
                 tts_first, tts_saves, tts_runs>>

\* the second synthesize_json call raised: nothing catches it but the outer except
tts_retry_fail ==
  /\ TtsStep
  /\ tts_pc = "retry"
  /\ tts_raise
  /\ UNCHANGED <<tts_voice_id, tts_voice_name, tts_has_saved_voice,
                 tts_last_generation_id, tts_synth, tts_first, tts_saves, tts_runs>>

\* voices.create returned: the voice is saved under its new name
tts_save_ok ==
  /\ TtsStep
  /\ tts_pc = "save"
  /\ tts_voice_name' = "pipecat-voice"
  /\ tts_has_saved_voice' = TRUE
  /\ tts_saves' = tts_saves + 1
  /\ tts_process_audio(tts_audio)
  /\ UNCHANGED <<tts_voice_id, tts_last_generation_id, tts_synth, tts_first, tts_runs>>

\* voices.create raised: a warning, and run_tts goes on
tts_save_fail ==
  /\ TtsStep
  /\ tts_pc = "save"
  /\ tts_process_audio(tts_audio)
  /\ UNCHANGED <<tts_voice_id, tts_voice_name, tts_has_saved_voice,
                 tts_last_generation_id, tts_synth, tts_first, tts_saves, tts_runs>>

Audios == {"none", "audio", "malformed"}

NextTts ==
  \/ run_tts
  \/ \E g \in BOOLEAN, a \in Audios : tts_synthesize_ok(g, a)
  \/ \E e \in {"not found", "other"} : tts_synthesize_fail(e)
  \/ \E g \in BOOLEAN, a \in Audios : tts_retry_ok(g, a)
  \/ tts_retry_fail
  \/ tts_save_ok
  \/ tts_save_fail

InitTts == server = "tts" /\ InitVAVars /\ InitIVVars /\ InitVBVars /\ InitOBIdle /\ InitTTSVars

SpecTts == InitTts /\ [][NextTts]_vars

\* C39: an invocation of HumeTTSService.run_tts makes at most two synthesize
\* calls, the second only after the first failed with a "not found" / "does not
\* exist" error and with the voice id and the voice name cleared; it yields
\* TTSStartedFrame first and ends with exactly one TTSStoppedFrame or ErrorFrame,
\* its last frame; and over all invocations run_tts saves a voice at most once.
TerminalFrames == {n \in 1..Len(tts_frames) : tts_frames[n] \in {"TTSStoppedFrame", "ErrorFrame"}}

C39_RunTts ==
  /\ tts_synth <= 2
  /\ tts_synth = 2 => tts_first = "not found"
  /\ tts_pc = "retry" => tts_synth = 2 /\ tts_voice_id = "None" /\ tts_voice_name = "None"
  /\ tts_saves <= 1
  /\ tts_frames # <<>> => tts_frames[1] = "TTSStartedFrame"
  /\ IF tts_pc = "idle" /\ tts_runs > 0
       THEN TerminalFrames = {Len(tts_frames)}
       ELSE TerminalFrames = {}

\* the first invocation saved a voice; the second found that voice gone, cleared
\* its name, synthesized again by description and saved nothing
C39_Witness ==
  /\ tts_runs >= 2 /\ tts_pc = "idle"
  /\ tts_synth = 2 /\ tts_first = "not found"
  /\ tts_saves = 1 /\ tts_has_saved_voice
  /\ tts_voice_id = "None" /\ tts_voice_name = "None"
  /\ tts_frames = <<"TTSStartedFrame", "TTSAudioRawFrame", "TTSStoppedFrame">>

====
